---------------------------- MODULE Spec2Model ----------------------------
(***************************************************************************)
(* testdock: disposable test databases, in a shared docker container or on *)
(* an external server.  The module models                                  *)
(*   - the connection string parser (url.go),                              *)
(*   - option preparation and run mode resolution (options.go),            *)
(*   - the lifecycle of one test database: newTDB, GetSQLConn /            *)
(*     GetMongoDatabase, close and the cleanups of testing.TB,             *)
(*   - the reference counted registry of shared containers                 *)
(*     (docker.go, createDockerResources and its release callback).        *)
(* A text is a sequence of one-character strings.                          *)
(***************************************************************************)
EXTENDS Integers, Sequences, FiniteSets, TLC

(***************************************************************************)
(* Bounds of the model.                                                    *)
(***************************************************************************)
\* number of concurrent tests, each calling the library once
NProcs == 2
\* highest host port the container engine hands out
MaxPort == 3

(***************************************************************************)
(* Program constants.                                                      *)
(***************************************************************************)
\* docker.go: maxAttempts of the start loop
maxAttempts == 10
\* docker.go: maxTime / retryTimeout of the purge retry (10 s / 1 s)
purgeMaxRetries == 10
\* options.go: the RunMode enumeration
RunModeUnknown == 0
RunModeDocker == 1
RunModeExternal == 2
RunModeAuto == 3
\* part_002: DefaultRetryTimeout and DefaultTotalRetryDuration, in seconds
DefaultRetryTimeout == 3
DefaultTotalRetryDuration == 30

(***************************************************************************)
(* Texts (package strings / strconv).                                      *)
(***************************************************************************)
\* strings.Index: the first position of sep in s, 0 when absent
Index(s, sep) ==
    LET hits == {i \in 1..(Len(s) - Len(sep) + 1) : SubSeq(s, i, i + Len(sep) - 1) = sep}
    IN IF hits = {} THEN 0 ELSE CHOOSE i \in hits : \A j \in hits : i <= j

\* fault: the first position in place of the last
FirstIndex(s, sep) == Index(s, sep)

\* strings.LastIndex: the last position of sep in s, 0 when absent
LastIndex(s, sep) ==
    LET hits == {i \in 1..(Len(s) - Len(sep) + 1) : SubSeq(s, i, i + Len(sep) - 1) = sep}
    IN IF hits = {} THEN 0 ELSE CHOOSE i \in hits : \A j \in hits : i >= j

\* strings.SplitN(s, sep, 2): one part when sep is absent, else two
SplitN2(s, sep) ==
    LET i == Index(s, sep)
    IN IF i = 0 THEN <<s>>
       ELSE <<SubSeq(s, 1, i - 1), SubSeq(s, i + Len(sep), Len(s))>>

\* strings.Split(s, sep): every part
RECURSIVE Split(_, _)
Split(s, sep) ==
    LET i == Index(s, sep)
    IN IF i = 0 THEN <<s>>
       ELSE <<SubSeq(s, 1, i - 1)>> \o Split(SubSeq(s, i + Len(sep), Len(s)), sep)

\* strings.HasSuffix
HasSuffix(s, suf) ==
    Len(s) >= Len(suf) /\ SubSeq(s, Len(s) - Len(suf) + 1, Len(s)) = suf

\* strings.TrimSuffix
TrimSuffix(s, suf) ==
    IF HasSuffix(s, suf) THEN SubSeq(s, 1, Len(s) - Len(suf)) ELSE s

Digits == <<"0", "1", "2", "3", "4", "5", "6", "7", "8", "9">>

IsDigit(c) == \E i \in 1..10 : Digits[i] = c

DigitVal(c) == (CHOOSE i \in 1..10 : Digits[i] = c) - 1

RECURSIVE DigitsVal(_)
DigitsVal(s) ==
    IF s = <<>> THEN 0
    ELSE 10 * DigitsVal(SubSeq(s, 1, Len(s) - 1)) + DigitVal(s[Len(s)])

\* strconv.Atoi: an optional sign and decimal digits; ok = FALSE is its error
Atoi(s) ==
    LET signed == s /= <<>> /\ s[1] \in {"+", "-"}
        body == IF signed THEN Tail(s) ELSE s
    IN IF body = <<>> \/ \E i \in 1..Len(body) : ~IsDigit(body[i])
       THEN [ok |-> FALSE, val |-> 0]
       ELSE [ok |-> TRUE,
             val |-> IF signed /\ s[1] = "-" THEN 0 - DigitsVal(body) ELSE DigitsVal(body)]

(***************************************************************************)
(* url.go: dbURL and parseURL.                                             *)
(***************************************************************************)
\* the options of "k1=v1&k2=v2": pairs without "=" are skipped, a later key wins
RECURSIVE ParseParams(_, _)
ParseParams(params, acc) ==
    IF params = <<>> THEN acc
    ELSE LET kv == SplitN2(Head(params), <<"=">>)
             next == IF Len(kv) = 2
                     THEN [k \in (DOMAIN acc) \cup {kv[1]} |->
                              IF k = kv[1] THEN kv[2] ELSE acc[k]]
                     ELSE acc
         IN ParseParams(Tail(params), next)

\* no options: the empty mapping
NoOptions == [k \in {} |-> <<>>]

\* a dbURL with only the Options map made
NewURL ==
    [Protocol |-> <<>>, Transport |-> <<>>, User |-> <<>>, Password |-> <<>>,
     Host |-> <<>>, Port |-> 0, Database |-> <<>>, Options |-> NoOptions]

\* parseURL on its way: the error met (""  is none), u and the text left
Parsing(err, u, rest) == [err |-> err, u |-> u, rest |-> rest]

\* fault: "://" without a protocol is let through
ParseProtocolAnyProtocol(connStr) ==
    LET parts == SplitN2(connStr, <<":", "/", "/">>)
    IN IF connStr = <<>> THEN Parsing("connection string cannot be empty", NewURL, <<>>)
       ELSE IF Len(parts) /= 2 THEN Parsing("", NewURL, connStr)
       ELSE Parsing("", [NewURL EXCEPT !.Protocol = parts[1]], parts[2])

\* lines 30-54: the empty text is refused, the protocol before "://" taken
ParseProtocol(connStr) ==
    LET parts == SplitN2(connStr, <<":", "/", "/">>)
    IN IF connStr = <<>> THEN Parsing("connection string cannot be empty", NewURL, <<>>)
       ELSE IF Len(parts) /= 2 THEN Parsing("", NewURL, connStr)
       ELSE IF parts[1] = <<>>
         THEN Parsing("invalid connection string format: '://' exists, but no protocol",
                      NewURL, <<>>)
       ELSE Parsing("", [NewURL EXCEPT !.Protocol = parts[1]], parts[2])

\* fault: an empty password is let through
ParseCredentialsAnyPassword(s) ==
    LET atIndex == LastIndex(s.rest, <<"@">>)
        credParts == SplitN2(SubSeq(s.rest, 1, atIndex - 1), <<":">>)
    IN IF s.err /= "" \/ atIndex = 0 THEN s
       ELSE IF Len(credParts) /= 2
         THEN Parsing("invalid connection string format: missing password", s.u, <<>>)
       ELSE IF credParts[1] = <<>> THEN Parsing("user is required", s.u, <<>>)
       ELSE Parsing("", [s.u EXCEPT !.User = credParts[1], !.Password = credParts[2]],
                    SubSeq(s.rest, atIndex + 1, Len(s.rest)))

\* lines 56-75: user and password stand before the last "@"
ParseCredentials(s) ==
    LET atIndex == LastIndex(s.rest, <<"@">>)
        credParts == SplitN2(SubSeq(s.rest, 1, atIndex - 1), <<":">>)
    IN IF s.err /= "" \/ atIndex = 0 THEN s
       ELSE IF Len(credParts) /= 2
         THEN Parsing("invalid connection string format: missing password", s.u, <<>>)
       ELSE IF credParts[1] = <<>> THEN Parsing("user is required", s.u, <<>>)
       ELSE IF credParts[2] = <<>> THEN Parsing("password is required", s.u, <<>>)
       ELSE Parsing("", [s.u EXCEPT !.User = credParts[1], !.Password = credParts[2]],
                    SubSeq(s.rest, atIndex + 1, Len(s.rest)))

\* lines 77-90: the options stand after "?"
ParseQuery(s) ==
    LET hostAndQuery == SplitN2(s.rest, <<"?">>)
    IN IF s.err /= "" THEN s
       ELSE IF Len(hostAndQuery) = 1 THEN Parsing("", s.u, hostAndQuery[1])
       ELSE Parsing("", [s.u EXCEPT !.Options =
                            ParseParams(Split(hostAndQuery[2], <<"&">>), NoOptions)],
                    hostAndQuery[1])

\* lines 92-97: the database stands after the first "/"
ParseDatabase(s) ==
    LET hostAndDB == SplitN2(s.rest, <<"/">>)
    IN IF s.err /= "" THEN s
       ELSE IF Len(hostAndDB) = 1 THEN Parsing("", s.u, hostAndDB[1])
       ELSE Parsing("", [s.u EXCEPT !.Database = hostAndDB[2]], hostAndDB[1])

\* lines 99-107: "transport(address)"
ParseTransport(s) ==
    LET transportParts == SplitN2(s.rest, <<"(">>)
    IN IF s.err /= "" THEN s
       ELSE IF ~(Index(s.rest, <<"(">>) > 0 /\ HasSuffix(s.rest, <<")">>)) THEN s
       ELSE IF Len(transportParts) /= 2
         THEN Parsing("invalid connection string format: malformed transport", s.u, <<>>)
       ELSE Parsing("", [s.u EXCEPT !.Transport = transportParts[1]],
                    TrimSuffix(transportParts[2], <<")">>))

\* lines 109-133: host and port, the port a positive number
ParseHostPort(s) ==
    LET hostAndPort == SplitN2(s.rest, <<":">>)
        p == Atoi(hostAndPort[2])
    IN IF s.err /= "" THEN s
       ELSE IF s.rest = <<>> THEN Parsing("host is required", s.u, <<>>)
       ELSE IF Len(hostAndPort) /= 2
         THEN Parsing("invalid connection string format: missing port", s.u, <<>>)
       ELSE IF hostAndPort[1] = <<>> THEN Parsing("host is required", s.u, <<>>)
       ELSE IF hostAndPort[2] = <<>> THEN Parsing("port is required", s.u, <<>>)
       ELSE IF ~p.ok THEN Parsing("parse port", s.u, <<>>)
       ELSE IF p.val <= 0 THEN Parsing("port must be positive", s.u, <<>>)
       ELSE Parsing("", [s.u EXCEPT !.Host = hostAndPort[1], !.Port = p.val], <<>>)

\* what parseURL returns: the dbURL with err = "", or (nil, err)
ParseResult(s) ==
    IF s.err /= "" THEN [err |-> s.err]
    ELSE [err |-> "", Protocol |-> s.u.Protocol, Transport |-> s.u.Transport,
          User |-> s.u.User, Password |-> s.u.Password, Host |-> s.u.Host,
          Port |-> s.u.Port, Database |-> s.u.Database, Options |-> s.u.Options]

\* parseURL: [err |-> ""] with the fields of dbURL, or [err |-> message]
parseURL(connStr) ==
    ParseResult(ParseHostPort(ParseTransport(ParseDatabase(ParseQuery(
        ParseCredentials(ParseProtocol(connStr)))))))

(***************************************************************************)
(* url.go: dbURL.string (lines 139-204).                                   *)
(***************************************************************************)
\* the decimal digits of a natural number
RECURSIVE NatText(_)
NatText(n) ==
    IF n < 10 THEN <<Digits[n + 1]>>
    ELSE NatText(n \div 10) \o <<Digits[(n % 10) + 1]>>

\* strconv.Itoa
Itoa(n) == IF n < 0 THEN <<"-">> \o NatText(0 - n) ELSE NatText(n)

\* the characters of the texts, in the order of their bytes
Bytes ==
    <<"!", "&", "(", ")", "*", "+", "-", ".", "/", "0", "1", "2", "3", "4",
      "5", "6", "7", "8", "9", ":", "=", "?", "@", "A", "B", "C", "D", "E",
      "F", "G", "H", "I", "J", "K", "L", "M", "N", "O", "P", "Q", "R", "S",
      "T", "U", "V", "W", "X", "Y", "Z", "\\", "_", "a", "b", "c", "d", "e",
      "f", "g", "h", "i", "j", "k", "l", "m", "n", "o", "p", "q", "r", "s",
      "t", "u", "v", "w", "x", "y", "z">>

ByteOf(c) == CHOOSE i \in 1..Len(Bytes) : Bytes[i] = c

\* a < b for two Go strings: at the first position where they differ a has
\* the smaller byte, or a ends there
Less(a, b) ==
    \E i \in 1..(Len(a) + 1) :
        /\ i <= Len(b)
        /\ SubSeq(a, 1, i - 1) = SubSeq(b, 1, i - 1)
        /\ (i = Len(a) + 1 \/ ByteOf(a[i]) < ByteOf(b[i]))

\* fault: the keys in descending order
RECURSIVE SortDescending(_)
SortDescending(keys) ==
    IF keys = {} THEN <<>>
    ELSE LET last == CHOOSE k \in keys : \A o \in keys \ {k} : Less(o, k)
         IN <<last>> \o SortDescending(keys \ {last})

\* sort.Strings on the keys of a map
RECURSIVE SortStrings(_)
SortStrings(keys) ==
    IF keys = {} THEN <<>>
    ELSE LET first == CHOOSE k \in keys : \A o \in keys \ {k} : Less(k, o)
         IN <<first>> \o SortStrings(keys \ {first})

\* lines 193-200: "k=v" for every key, "&" between them
RECURSIVE WritePairs(_, _)
WritePairs(keys, options) ==
    IF keys = <<>> THEN <<>>
    ELSE Head(keys) \o <<"=">> \o options[Head(keys)]
         \o (IF Len(keys) > 1 THEN <<"&">> \o WritePairs(Tail(keys), options) ELSE <<>>)

\* lines 147-150
WriteProtocol(u) == IF u.Protocol /= <<>> THEN u.Protocol \o <<":", "/", "/">> ELSE <<>>

\* fault: the password is hidden whatever hidePassword is
WriteMasked(u, hidePassword) ==
    IF u.User /= <<>>
    THEN u.User \o <<":">> \o <<"*", "*", "*", "*", "*">> \o <<"@">>
    ELSE <<>>

\* fault: the password is written whatever hidePassword is
WritePassword(u, hidePassword) ==
    IF u.User /= <<>>
    THEN u.User \o <<":">> \o u.Password \o <<"@">>
    ELSE <<>>

\* lines 152-162: the password, or five stars in its place
WriteCredentials(u, hidePassword) ==
    IF u.User /= <<>>
    THEN u.User \o <<":">>
         \o (IF hidePassword THEN <<"*", "*", "*", "*", "*">> ELSE u.Password) \o <<"@">>
    ELSE <<>>

\* lines 169-172: the host and, unless it is 0, the port
WriteHostPort(u) == u.Host \o (IF u.Port /= 0 THEN <<":">> \o Itoa(u.Port) ELSE <<>>)

\* lines 165-175
WriteAddress(u) ==
    IF u.Transport /= <<>> THEN u.Transport \o <<"(">> \o WriteHostPort(u) \o <<")">>
    ELSE WriteHostPort(u)

\* lines 178-180
WriteDatabase(u) == IF u.Database /= <<>> THEN <<"/">> \o u.Database ELSE <<>>

\* lines 183-201
WriteOptions(u) ==
    IF DOMAIN u.Options /= {}
    THEN <<"?">> \o WritePairs(SortStrings(DOMAIN u.Options), u.Options)
    ELSE <<>>

\* dbURL.string: "" for nil, which is a parse result with an error
string(u, hidePassword) ==
    IF u.err /= "" THEN <<>>
    ELSE WriteProtocol(u) \o WriteCredentials(u, hidePassword) \o WriteAddress(u)
         \o WriteDatabase(u) \o WriteOptions(u)

(***************************************************************************)
(* The inputs of the model: drivers, connection strings, the environment.  *)
(***************************************************************************)
\* mongodb.go: mongoDriverName, "mongodb"
mongoDriverName == <<"m", "o", "n", "g", "o", "d", "b">>
\* the driver GetPgxPool passes to newTDB, "pgx"
pgxDriverName == <<"p", "g", "x">>

\* "u:p@h:1/a"
dsnA == <<"u", ":", "p", "@", "h", ":", "1", "/", "a">>
\* "u:p@h:1/b": the same host and port, another registry key
dsnB == <<"u", ":", "p", "@", "h", ":", "1", "/", "b">>
\* "u:p@x:2/e": the connection string the environment supplies
dsnE == <<"u", ":", "p", "@", "x", ":", "2", "/", "e">>
\* "h": no port, parseURL rejects it
dsnNoPort == <<"h">>

\* every connection string a testDB can hold: the keys of both global maps
Keys == {dsnA, dsnB, dsnE}

Lower == <<"a", "b", "c", "d", "e", "f", "g", "h", "i", "j", "k", "l", "m",
           "n", "o", "p", "q", "r", "s", "t", "u", "v", "w", "x", "y", "z">>
Upper == <<"A", "B", "C", "D", "E", "F", "G", "H", "I", "J", "K", "L", "M",
           "N", "O", "P", "Q", "R", "S", "T", "U", "V", "W", "X", "Y", "Z">>

\* strings.ToUpper
ToUpper(s) ==
    [i \in 1..Len(s) |->
        IF \E j \in 1..26 : Lower[j] = s[i]
        THEN Upper[CHOOSE j \in 1..26 : Lower[j] = s[i]]
        ELSE s[i]]

\* fmt.Sprintf("TESTDOCK_DSN_%s", strings.ToUpper(driver))
EnvName(driver) ==
    <<"T", "E", "S", "T", "D", "O", "C", "K", "_", "D", "S", "N", "_">> \o ToUpper(driver)

\* the environments of a run: nothing set, or TESTDOCK_DSN_PGX set to dsnE
Environments ==
    {[n \in {} |-> <<>>], [n \in {EnvName(pgxDriverName)} |-> dsnE]}

\* os.Getenv: the empty text for a variable that is not set
Getenv(e, name) == IF name \in DOMAIN e THEN e[name] ELSE <<>>

Procs == 1..NProcs
Ports == 1..MaxPort

\* the options of a call, as the With... functions leave them on the testDB;
\* the retry timing keeps the defaults of newTDB's literal
Opt(mode, repo, dir, factory, hooks) ==
    [mode |-> mode, dockerRepository |-> repo, migrationsDir |-> dir,
     MigrateFactory |-> factory, prepareCleanUp |-> hooks,
     retryTimeout |-> DefaultRetryTimeout, totalRetryDuration |-> DefaultTotalRetryDuration,
     connectDatabase |-> <<>>, connectDatabaseOverride |-> FALSE]

\* options.go 133-140: WithConnectDatabase, on the options of a call
WithConnectDatabase(o, connectDatabase) ==
    [o EXCEPT !.connectDatabase = connectDatabase, !.connectDatabaseOverride = TRUE]

\* options.go: WithRetryTimeout, on the options of a call; seconds
WithRetryTimeout(o, retryTimeout) == [o EXCEPT !.retryTimeout = retryTimeout]

repoPostgres == <<"p", "o", "s", "t", "g", "r", "e", "s">>
repoMongo == <<"m", "o", "n", "g", "o">>
dirMigrations == <<"m", "i", "g">>

\* one call of the library: the entry point and its arguments
Call(api, driver, dsn, opt) == [api |-> api, driver |-> driver, dsn |-> dsn, opt |-> opt]

\* the call of a test that shares containers: GetPgxPool-like (docker
\* repository and one pre-cleanup hook supplied), in Docker mode
PeerCall(d) == Call("GetSQLConn", pgxDriverName, d, Opt(RunModeDocker, repoPostgres, <<>>, FALSE, 1))

PeerCalls == {PeerCall(d) : d \in {dsnA, dsnB}}

\* GetSQLConn with the driver pgx
SQLCall(dsn, opt) == Call("GetSQLConn", pgxDriverName, dsn, opt)

\* calls that pass prepareOptions: docker with migrations, auto, a real
\* database with migrations and a hook, an unset mode, a retry timeout of 60
\* seconds beside the default total of 30, a real database created over the
\* connect database "m", mongodb on a real database
ValidCalls ==
    {PeerCall(dsnB),
     SQLCall(dsnA, Opt(RunModeDocker, repoPostgres, dirMigrations, TRUE, 0)),
     SQLCall(dsnA, Opt(RunModeAuto, repoPostgres, <<>>, FALSE, 2)),
     SQLCall(dsnA, Opt(RunModeExternal, <<>>, dirMigrations, TRUE, 1)),
     SQLCall(dsnA, Opt(RunModeUnknown, <<>>, <<>>, FALSE, 0)),
     SQLCall(dsnA, WithRetryTimeout(Opt(RunModeExternal, <<>>, <<>>, FALSE, 0), 60)),
     SQLCall(dsnA, WithConnectDatabase(Opt(RunModeExternal, <<>>, <<>>, FALSE, 0), <<"m">>)),
     Call("GetMongoDatabase", mongoDriverName, dsnA, Opt(RunModeExternal, repoMongo, <<>>, FALSE, 0))}

\* calls that prepareOptions, or the wrapper before it (GetMongoDatabase,
\* getPostgresOptions of GetPgxPool), refuses
InvalidCalls ==
    {Call("GetSQLConn", <<>>, dsnA, Opt(RunModeExternal, <<>>, <<>>, FALSE, 0)),
     SQLCall(<<>>, Opt(RunModeExternal, <<>>, <<>>, FALSE, 0)),
     SQLCall(dsnNoPort, Opt(RunModeDocker, repoPostgres, <<>>, FALSE, 0)),
     SQLCall(dsnA, Opt(RunModeDocker, <<>>, <<>>, FALSE, 0)),
     SQLCall(dsnA, Opt(RunModeExternal, <<>>, dirMigrations, FALSE, 0)),
     SQLCall(dsnA, Opt(RunModeExternal, <<>>, <<>>, TRUE, 0)),
     Call("GetMongoDatabase", mongoDriverName, dsnNoPort, Opt(RunModeAuto, repoMongo, <<>>, FALSE, 0)),
     Call("GetPgxPool", pgxDriverName, dsnNoPort, Opt(RunModeAuto, repoPostgres, <<>>, FALSE, 1))}

\* every kind of call
AllCalls == ValidCalls \cup InvalidCalls

(***************************************************************************)
(* options.go: prepareOptions.                                             *)
(***************************************************************************)
\* the testDB literal of newTDB with the options applied to it
NewTestDB(c) ==
    [driver |-> c.driver, dsn |-> c.dsn, mode |-> c.opt.mode,
     url |-> [err |-> "nil"], connectDatabase |-> c.opt.connectDatabase,
     connectDatabaseOverride |-> c.opt.connectDatabaseOverride,
     dockerRepository |-> c.opt.dockerRepository, dockerImage |-> <<>>, dockerPort |-> 0,
     migrationsDir |-> c.opt.migrationsDir, MigrateFactory |-> c.opt.MigrateFactory,
     prepareCleanUp |-> c.opt.prepareCleanUp, databaseName |-> <<>>,
     retryTimeout |-> c.opt.retryTimeout, totalRetryDuration |-> c.opt.totalRetryDuration]

\* fault: the environment overrides an explicit mode too
ResolveModeEnvFirst(mode, dsnEnv) ==
    IF dsnEnv /= <<>> THEN RunModeExternal
    ELSE IF mode = RunModeAuto THEN RunModeDocker ELSE mode

\* the run mode after the RunModeAuto block
ResolveMode(mode, dsnEnv) ==
    IF mode = RunModeAuto
    THEN IF dsnEnv /= <<>> THEN RunModeExternal ELSE RunModeDocker
    ELSE mode

\* the connection string after the RunModeAuto block
ResolveDSN(mode, dsn, dsnEnv) ==
    IF mode = RunModeAuto /\ dsnEnv /= <<>> THEN dsnEnv ELSE dsn

\* the name of the test database of test t: "t_" and a text no other test has
DatabaseNameOf(t) == <<"t", "_", Digits[t + 1]>>

\* lines 151-159: the RunModeAuto block
WithMode(d, dsnEnv) ==
    [d EXCEPT !.mode = ResolveMode(d.mode, dsnEnv),
              !.dsn = ResolveDSN(d.mode, d.dsn, dsnEnv)]

\* lines 169-174: the parsed url and the default of the connect database
WithURL(d, u) ==
    [d EXCEPT !.url = u,
              !.connectDatabase = IF ~d.connectDatabaseOverride /\ d.connectDatabase = <<>>
                                  THEN u.Database ELSE @]

\* lines 180-185: the defaults of the image tag and of the container port
WithDockerDefaults(d) ==
    [d EXCEPT !.dockerImage = <<"l", "a", "t", "e", "s", "t">>, !.dockerPort = d.url.Port]

\* fault: the docker repository is not required
CheckDockerAnyRepository(t, d) ==
    IF (~d.MigrateFactory) /= (d.migrationsDir = <<>>)
      THEN [err |-> "MigrateFactory and migrationsDir must be set together",
            db |-> [(IF d.mode = RunModeDocker THEN WithDockerDefaults(d) ELSE d)
                       EXCEPT !.databaseName = DatabaseNameOf(t)]]
    ELSE [err |-> "",
          db |-> [(IF d.mode = RunModeDocker THEN WithDockerDefaults(d) ELSE d)
                     EXCEPT !.databaseName = DatabaseNameOf(t)]]

\* lines 176-198, on the testDB with its url: [err, db] as prepareOptions leaves them
CheckDocker(t, d) ==
    IF d.mode = RunModeDocker /\ d.dockerRepository = <<>>
      THEN [err |-> "dockerRepository is empty", db |-> d]
    ELSE IF d.mode = RunModeDocker /\ d.url.Port <= 0
      THEN [err |-> "dockerPort must be greater than 0", db |-> WithDockerDefaults(d)]
    ELSE IF (~d.MigrateFactory) /= (d.migrationsDir = <<>>)
      THEN [err |-> "MigrateFactory and migrationsDir must be set together",
            db |-> [(IF d.mode = RunModeDocker THEN WithDockerDefaults(d) ELSE d)
                       EXCEPT !.databaseName = DatabaseNameOf(t)]]
    ELSE [err |-> "",
          db |-> [(IF d.mode = RunModeDocker THEN WithDockerDefaults(d) ELSE d)
                     EXCEPT !.databaseName = DatabaseNameOf(t)]]

\* lines 165-168: parseURL of d.dsn
CheckURL(t, d, u) ==
    IF u.err /= "" THEN [err |-> "parse dsn", db |-> d]
    ELSE CheckDocker(t, WithURL(d, u))

\* lines 161-163
CheckDSN(t, d) ==
    IF d.dsn = <<>> THEN [err |-> "dsn is empty", db |-> d]
    ELSE CheckURL(t, d, parseURL(d.dsn))

\* prepareOptions of test t on the call c in the environment e: the testDB it
\* leaves and its error ("" is nil)
prepareOptions(t, c, e) ==
    IF c.driver = <<>> THEN [err |-> "driver is empty", db |-> NewTestDB(c)]
    ELSE CheckDSN(t, WithMode(NewTestDB(c), Getenv(e, EnvName(c.driver))))

(***************************************************************************)
(* The state.                                                              *)
(***************************************************************************)
VARIABLES
    env,                    \* the environment variables of the process
    extBound,               \* host ports bound by other programs
    call,                   \* call[t]: the call test t makes
    pc,                     \* pc[t]: where test t is
    db,                     \* db[t]: the testDB of test t
    errResult,              \* errResult[t]: newTDB's errResult ("" is nil)
    fatal,                  \* fatal[t]: tb.Fatalf was called
    returned,               \* returned[t]: the call handed its result to the test
    cleanups,               \* cleanups[t]: the functions registered with tb.Cleanup
    info,                   \* info[t]: the local info of createDockerResources (0: none)
    createdPool,            \* createdPool[t]: t registered the deferred pool reset
    attempt,                \* attempt[t]: attempt of the start loop / of the purge
    globalMu,               \* holder of globalMu (0: free)
    globalMuByDSN,          \* globalMuByDSN[k]: holder of the mutex of k, -1 without one
    globalDockerMu,         \* holder of globalDockerMu (0: free)
    globalDockerResources,  \* globalDockerResources[k]: the info of k (0: no entry)
    globalDockerPool,       \* globalDockerPool /= nil
    infos,                  \* infos[i]: the dockerResourceInfo allocated by test i
    running,                \* the containers the engine runs, named by their starter
    hostPort,               \* hostPort[c]: the host port container c is bound to
    dbs,                    \* the databases that exist, as <<server, name>>
    crashed,                \* a nil dereference ended the test binary
    log,                    \* log[t]: what test t did, in order (history)
    lateAcq,                \* keys acquired again after a release began (history)
    retry,                  \* one run of retryConnect: its testDB fields, locals, clock
    codec                   \* one run of the url code: parseURL and string on a text,
                            \* or clone / replaceDatabase on a dbURL

vars == <<env, extBound, call, pc, db, errResult, fatal, returned, cleanups, info,
          createdPool, attempt, globalMu, globalMuByDSN, globalDockerMu,
          globalDockerResources, globalDockerPool, infos, running, hostPort, dbs,
          crashed, log, lateAcq, retry, codec>>

\* the variables no step of newTDB and of its callbacks changes: the
\* environment, the calls, and the runs of retryConnect and of the url code
\* that are followed on their own
inputs == <<env, extBound, call, retry, codec>>
\* the variables of the tests, which a run of retryConnect or of the url code
\* on its own leaves alone
testVars == <<env, extBound, call, pc, db, errResult, fatal, returned, cleanups, info,
              createdPool, attempt, globalMu, globalMuByDSN, globalDockerMu,
              globalDockerResources, globalDockerPool, infos, running, hostPort, dbs,
              crashed, log, lateAcq>>
\* the state of the locks of newTDB
muVars == <<globalMu, globalMuByDSN>>
\* the state of the container registry and of the engine
dockerVars == <<globalDockerMu, globalDockerResources, globalDockerPool, infos,
                running, hostPort>>

\* a dockerResourceInfo{}: no resource, port 0, count 0, mutex free
NewInfo == [resource |-> 0, port |-> 0, count |-> 0, mu |-> 0]

\* an entry of the history
Ev(e, i, ok) == [e |-> e, i |-> i, ok |-> ok]

\* the state before any test calls the library
InitState ==
    /\ pc = [t \in Procs |-> "start"]
    /\ db = [t \in Procs |-> NewTestDB(call[t])]
    /\ errResult = [t \in Procs |-> ""]
    /\ fatal = [t \in Procs |-> FALSE]
    /\ returned = [t \in Procs |-> FALSE]
    /\ cleanups = [t \in Procs |-> <<>>]
    /\ info = [t \in Procs |-> 0]
    /\ createdPool = [t \in Procs |-> FALSE]
    /\ attempt = [t \in Procs |-> 0]
    /\ globalMu = 0
    /\ globalMuByDSN = [k \in Keys |-> -1]
    /\ globalDockerMu = 0
    /\ globalDockerResources = [k \in Keys |-> 0]
    /\ globalDockerPool = FALSE
    /\ infos = [i \in Procs |-> NewInfo]
    /\ running = {}
    /\ hostPort = [c \in Procs |-> 0]
    /\ dbs = {}
    /\ crashed = FALSE
    /\ log = [t \in Procs |-> <<>>]
    /\ lateAcq = {}

\* no run of retryConnect or of the url code is followed on its own
NoRuns == retry = [pc |-> "none"] /\ codec = [pc |-> "none"]

\* tests that share containers
Init ==
    /\ env = [n \in {} |-> <<>>]
    /\ extBound \in {{}, {1}}
    /\ call \in {c \in [Procs -> PeerCalls] : c[1] = PeerCall(dsnA)}
    /\ InitState /\ NoRuns

(***************************************************************************)
(* Helpers of the actions.                                                 *)
(***************************************************************************)
Goto(t, l) == pc' = [pc EXCEPT ![t] = l]

Logged(t, evs) == log' = [log EXCEPT ![t] = @ \o evs]

\* the registry key of test t: d.dsn
KeyOf(t) == db[t].dsn

\* the host ports in use: those of other programs and of the running containers
Bound == extBound \cup {hostPort[c] : c \in running}

\* len(globalDockerResources) == 0
RegistryEmpty == \A k \in Keys : globalDockerResources[k] = 0

\* the server that holds the databases of test t: 0 is the external server,
\* in Docker mode it is the container of t's registry entry
ServerOf(t) == IF db[t].mode = RunModeDocker THEN infos[info[t]].resource ELSE 0

\* fault: cleanups run in the order of registration
RegisterFirst(stack, f) == <<f>> \o stack

\* tb.Cleanup(f): f is run after the functions registered later
Register(stack, f) == Append(stack, f)

\* the function tb runs next: the one registered last
NextCleanup(stack) == stack[Len(stack)]

\* the functions left once the next one ran
RestCleanups(stack) == SubSeq(stack, 1, Len(stack) - 1)

(***************************************************************************)
(* newTDB, up to the per-DSN mutex (lines 152-187).                        *)
(***************************************************************************)
\* the call starts: the wrapper's own parseURL, the testDB literal and
\* prepareOptions; an error is reported by tb.Fatalf, which ends the test
NewTDB(t) ==
    /\ ~crashed /\ pc[t] = "start"
    /\ LET r == prepareOptions(t, call[t], env)
           wrapperErr == /\ call[t].api \in {"GetMongoDatabase", "GetPgxPool"}
                         /\ parseURL(call[t].dsn).err /= ""
       IN IF wrapperErr
          THEN /\ fatal' = [fatal EXCEPT ![t] = TRUE]
               /\ Logged(t, <<Ev("parseURL", 0, FALSE)>>)
               /\ Goto(t, "cleanup")
               /\ UNCHANGED <<db, errResult>>
          ELSE /\ db' = [db EXCEPT ![t] = r.db]
               /\ errResult' = [errResult EXCEPT ![t] = r.err]
               /\ fatal' = [fatal EXCEPT ![t] = r.err /= ""]
               /\ Logged(t, <<Ev("prepareOptions", 0, r.err = "")>>)
               /\ Goto(t, IF r.err = "" THEN "globalMu" ELSE "cleanup")
    /\ UNCHANGED <<inputs, returned, cleanups, info, createdPool, attempt, muVars,
                   dockerVars, dbs, crashed, lateAcq>>

\* globalMu.Lock() and the lookup, or creation, of the mutex of d.dsn
GlobalMuLock(t) ==
    /\ ~crashed /\ pc[t] = "globalMu"
    /\ globalMu = 0
    /\ globalMu' = t
    /\ globalMuByDSN' = [globalMuByDSN EXCEPT ![KeyOf(t)] = IF @ = -1 THEN 0 ELSE @]
    /\ Goto(t, "globalMuUnlock")
    /\ UNCHANGED <<inputs, db, errResult, fatal, returned, cleanups, info, createdPool,
                   attempt, dockerVars, dbs, crashed, log, lateAcq>>

\* globalMu.Unlock()
GlobalMuUnlock(t) ==
    /\ ~crashed /\ pc[t] = "globalMuUnlock"
    /\ globalMu' = 0
    /\ Goto(t, "muLock")
    /\ UNCHANGED <<inputs, db, errResult, fatal, returned, cleanups, info, createdPool,
                   attempt, globalMuByDSN, dockerVars, dbs, crashed, log, lateAcq>>

\* fault: the mutex of the connection string does not exclude
MuAlwaysFree(t) == TRUE

\* whether test t may take the mutex of its connection string
MuFree(t) == globalMuByDSN[KeyOf(t)] = 0

\* fault: newTDB goes on without taking the mutex of the connection string
MuLockSkipped(t) ==
    /\ ~crashed /\ pc[t] = "muLock"
    /\ Goto(t, IF db[t].mode = RunModeDocker THEN "dockerLookup" ELSE "createTestDatabase")
    /\ UNCHANGED <<inputs, db, errResult, fatal, returned, cleanups, info, createdPool,
                   attempt, muVars, dockerVars, dbs, crashed, log, lateAcq>>

\* mu.Lock(), and the choice between docker and a real database
MuLock(t) ==
    /\ ~crashed /\ pc[t] = "muLock"
    /\ MuFree(t)
    /\ globalMuByDSN' = [globalMuByDSN EXCEPT ![KeyOf(t)] = t]
    /\ Goto(t, IF db[t].mode = RunModeDocker THEN "dockerLookup" ELSE "createTestDatabase")
    /\ UNCHANGED <<inputs, db, errResult, fatal, returned, cleanups, info, createdPool,
                   attempt, globalMu, dockerVars, dbs, crashed, log, lateAcq>>

(***************************************************************************)
(* docker.go: createDockerResources (lines 242-420).                       *)
(***************************************************************************)
\* fault: the lookup ignores the registry and always makes a new info
LookupFresh(t) == t

\* the info the lookup yields: the entry of the key, or a new one
LookupInfo(t) ==
    IF globalDockerResources[KeyOf(t)] /= 0 THEN globalDockerResources[KeyOf(t)] ELSE t

\* lines 243-253 with the pool present: globalDockerMu is taken, info looked up
LookupWithPool(t) ==
    /\ ~crashed /\ pc[t] = "dockerLookup"
    /\ globalDockerMu = 0
    /\ globalDockerPool
    /\ globalDockerMu' = t
    /\ info' = [info EXCEPT ![t] = LookupInfo(t)]
    /\ Goto(t, "dockerUnlock")
    /\ UNCHANGED <<inputs, db, errResult, fatal, returned, cleanups, createdPool, attempt,
                   muVars, globalDockerResources, globalDockerPool, infos, running,
                   hostPort, dbs, crashed, log, lateAcq>>

\* lines 243-296 without a pool: NewPool and Ping succeed, the reset is deferred
LookupNewPool(t) ==
    /\ ~crashed /\ pc[t] = "dockerLookup"
    /\ globalDockerMu = 0
    /\ ~globalDockerPool
    /\ globalDockerMu' = t
    /\ globalDockerPool' = TRUE
    /\ createdPool' = [createdPool EXCEPT ![t] = TRUE]
    /\ info' = [info EXCEPT ![t] = LookupInfo(t)]
    /\ Goto(t, "dockerUnlock")
    /\ UNCHANGED <<inputs, db, errResult, fatal, returned, cleanups, attempt, muVars,
                   globalDockerResources, infos, running, hostPort, dbs, crashed, log,
                   lateAcq>>

\* lines 255-283: NewPool fails (the pool stays nil) or Ping fails (the pool
\* stays set); the lock is released and the error returned
LookupPoolError(t) ==
    /\ ~crashed /\ pc[t] = "dockerLookup"
    /\ globalDockerMu = 0
    /\ ~globalDockerPool
    /\ \E failed \in {"NewPool", "Ping"} :
          /\ globalDockerPool' = (failed = "Ping")
          /\ errResult' = [errResult EXCEPT ![t] = "pool"]
    /\ info' = [info EXCEPT ![t] = LookupInfo(t)]
    /\ Logged(t, <<Ev("acquire", 0, FALSE)>>)
    /\ Goto(t, "failUnlock")
    /\ UNCHANGED <<inputs, db, fatal, returned, cleanups, createdPool, attempt, muVars,
                   globalDockerMu, globalDockerResources, infos, running, hostPort, dbs,
                   crashed, lateAcq>>

\* line 298: globalDockerMu.Unlock()
DockerUnlock(t) ==
    /\ ~crashed /\ pc[t] = "dockerUnlock"
    /\ globalDockerMu' = 0
    /\ Goto(t, "infoLock")
    /\ UNCHANGED <<inputs, db, errResult, fatal, returned, cleanups, info, createdPool,
                   attempt, muVars, globalDockerResources, globalDockerPool, infos,
                   running, hostPort, dbs, crashed, log, lateAcq>>

\* fault: the test goes on without the lock of the info
InfoLockSkipped(t) ==
    /\ ~crashed /\ pc[t] = "infoLock"
    /\ attempt' = [attempt EXCEPT ![t] = 0]
    /\ Goto(t, IF infos[info[t]].count = 0 THEN "run" ELSE "reuse")
    /\ UNCHANGED <<inputs, db, errResult, fatal, returned, cleanups, info, createdPool,
                   muVars, dockerVars, dbs, crashed, log, lateAcq>>

\* fault: the container of the info is started only when the info has none,
\* whatever the count
InfoLockByResource(t) ==
    /\ ~crashed /\ pc[t] = "infoLock"
    /\ infos[info[t]].mu = 0
    /\ infos' = [infos EXCEPT ![info[t]].mu = t]
    /\ attempt' = [attempt EXCEPT ![t] = 0]
    /\ Goto(t, IF infos[info[t]].resource = 0 THEN "run" ELSE "reuse")
    /\ UNCHANGED <<inputs, db, errResult, fatal, returned, cleanups, info, createdPool,
                   muVars, globalDockerMu, globalDockerResources, globalDockerPool,
                   running, hostPort, dbs, crashed, log, lateAcq>>

\* lines 300-303: info.mu.Lock() and the test of info.count
InfoLock(t) ==
    /\ ~crashed /\ pc[t] = "infoLock"
    /\ infos[info[t]].mu = 0
    /\ infos' = [infos EXCEPT ![info[t]].mu = t]
    /\ attempt' = [attempt EXCEPT ![t] = 0]
    /\ Goto(t, IF infos[info[t]].count = 0 THEN "run" ELSE "reuse")
    /\ UNCHANGED <<inputs, db, errResult, fatal, returned, cleanups, info, createdPool,
                   muVars, globalDockerMu, globalDockerResources, globalDockerPool,
                   running, hostPort, dbs, crashed, log, lateAcq>>

\* lines 315-331 and 365: RunWithOptions starts the container on the host port
\* of the working descriptor, which is free; the port is recorded on the entry
RunOK(t) ==
    /\ ~crashed /\ pc[t] = "run"
    /\ globalDockerPool
    /\ db[t].url.Port \notin Bound
    /\ running' = running \cup {t}
    /\ hostPort' = [hostPort EXCEPT ![t] = db[t].url.Port]
    /\ infos' = [infos EXCEPT ![info[t]].resource = t, ![info[t]].port = db[t].url.Port]
    /\ attempt' = [attempt EXCEPT ![t] = 0]
    /\ Logged(t, <<Ev("start", db[t].url.Port, TRUE)>>)
    /\ Goto(t, "insert")
    /\ UNCHANGED <<inputs, db, errResult, fatal, returned, cleanups, info, createdPool,
                   muVars, globalDockerMu, globalDockerResources, globalDockerPool, dbs,
                   crashed, lateAcq>>

\* fault: the loop skips a port after a bind error
SkipPort(port) == port + 2

\* the host port the loop tries after a bind error
NextPort(port) == port + 1

\* lines 334-350: the host port is in use, the next one is tried
RunPortConflict(t) ==
    /\ ~crashed /\ pc[t] = "run"
    /\ globalDockerPool
    /\ db[t].url.Port \in Bound
    /\ NextPort(db[t].url.Port) \in Ports
    /\ db' = [db EXCEPT ![t].url.Port = NextPort(@)]
    /\ infos' = [infos EXCEPT ![info[t]].resource = 0]
    /\ Logged(t, <<Ev("port conflict", db[t].url.Port, FALSE)>>)
    /\ UNCHANGED <<inputs, pc, errResult, fatal, returned, cleanups, info, createdPool,
                   attempt, muVars, globalDockerMu, globalDockerResources,
                   globalDockerPool, running, hostPort, dbs, crashed, lateAcq>>

\* fault: a failure of another kind is counted but never ends the loop
RunErrorNoCeiling(t) ==
    /\ ~crashed /\ pc[t] = "run"
    /\ globalDockerPool
    /\ attempt' = [attempt EXCEPT ![t] = @ + 1]
    /\ infos' = [infos EXCEPT ![info[t]].resource = 0]
    /\ UNCHANGED <<inputs, pc, db, errResult, fatal, returned, cleanups, info, createdPool,
                   muVars, globalDockerMu, globalDockerResources, globalDockerPool,
                   running, hostPort, dbs, crashed, log, lateAcq>>

\* lines 352-358: another failure costs an attempt; the loop ends at maxAttempts
RunError(t) ==
    /\ ~crashed /\ pc[t] = "run"
    /\ globalDockerPool
    /\ attempt' = [attempt EXCEPT ![t] = @ + 1]
    /\ infos' = [infos EXCEPT ![info[t]].resource = 0]
    /\ Goto(t, IF attempt[t] + 1 >= maxAttempts THEN "startFailed" ELSE "run")
    /\ UNCHANGED <<inputs, db, errResult, fatal, returned, cleanups, info, createdPool,
                   muVars, globalDockerMu, globalDockerResources, globalDockerPool,
                   running, hostPort, dbs, crashed, log, lateAcq>>

\* line 315 with globalDockerPool nil: the call dereferences nil
RunNilPool(t) ==
    /\ ~crashed /\ pc[t] = "run"
    /\ ~globalDockerPool
    /\ crashed' = TRUE
    /\ Goto(t, "panic")
    /\ UNCHANGED <<inputs, db, errResult, fatal, returned, cleanups, info, createdPool,
                   attempt, muVars, dockerVars, dbs, log, lateAcq>>

\* fault: the entry is stored although the start failed
StartFailedStored(t) ==
    /\ ~crashed /\ pc[t] = "startFailed"
    /\ infos' = [infos EXCEPT ![info[t]].mu = 0]
    /\ globalDockerResources' = [globalDockerResources EXCEPT ![KeyOf(t)] = info[t]]
    /\ errResult' = [errResult EXCEPT ![t] = "RunWithOptions"]
    /\ attempt' = [attempt EXCEPT ![t] = 0]
    /\ Logged(t, <<Ev("acquire", 0, FALSE)>>)
    /\ Goto(t, IF createdPool[t] THEN "resetFailed" ELSE "failUnlock")
    /\ UNCHANGED <<inputs, db, fatal, returned, cleanups, info, createdPool,
                   muVars, globalDockerMu, globalDockerPool,
                   running, hostPort, dbs, crashed, lateAcq>>

\* lines 361-363: the error is returned; the deferred info.mu.Unlock() runs
StartFailed(t) ==
    /\ ~crashed /\ pc[t] = "startFailed"
    /\ infos' = [infos EXCEPT ![info[t]].mu = 0]
    /\ errResult' = [errResult EXCEPT ![t] = "RunWithOptions"]
    /\ attempt' = [attempt EXCEPT ![t] = 0]
    /\ Logged(t, <<Ev("acquire", 0, FALSE)>>)
    /\ Goto(t, IF createdPool[t] THEN "resetFailed" ELSE "failUnlock")
    /\ UNCHANGED <<inputs, db, fatal, returned, cleanups, info, createdPool,
                   muVars, globalDockerMu, globalDockerResources, globalDockerPool,
                   running, hostPort, dbs, crashed, lateAcq>>

\* fault: a later acquirer keeps the port it asked for
UseExistingKeepsPort(t) ==
    /\ ~crashed /\ pc[t] = "reuse"
    /\ Goto(t, "insert")
    /\ UNCHANGED <<inputs, db, errResult, fatal, returned, cleanups, info, createdPool,
                   attempt, muVars, dockerVars, dbs, crashed, log, lateAcq>>

\* lines 368-371: the container exists; its port goes to the working descriptor
UseExisting(t) ==
    /\ ~crashed /\ pc[t] = "reuse"
    /\ db' = [db EXCEPT ![t].url.Port = infos[info[t]].port]
    /\ Goto(t, "insert")
    /\ UNCHANGED <<inputs, errResult, fatal, returned, cleanups, info, createdPool,
                   attempt, muVars, dockerVars, dbs, crashed, log, lateAcq>>

\* lines 374-376: the entry is stored under globalDockerMu
InsertEntry(t) ==
    /\ ~crashed /\ pc[t] = "insert"
    /\ globalDockerMu = 0
    /\ globalDockerResources' = [globalDockerResources EXCEPT ![KeyOf(t)] = info[t]]
    /\ Goto(t, "count")
    /\ UNCHANGED <<inputs, db, errResult, fatal, returned, cleanups, info, createdPool,
                   attempt, muVars, globalDockerMu, globalDockerPool, infos, running,
                   hostPort, dbs, crashed, log, lateAcq>>

\* tests whose release callback began for the key k
Releasers(k) ==
    {q \in Procs : db[q].dsn = k /\ \E i \in 1..Len(log[q]) : log[q][i].e = "release"}

\* lines 378-419: info.count++, the release callback is registered, nil is
\* returned and the deferred info.mu.Unlock() runs
AcquireDone(t) ==
    /\ ~crashed /\ pc[t] = "count"
    /\ infos' = [infos EXCEPT ![info[t]].count = @ + 1, ![info[t]].mu = 0]
    /\ cleanups' = [cleanups EXCEPT ![t] = Register(@, "release")]
    /\ Logged(t, <<Ev("acquire", infos[info[t]].count + 1, TRUE)>>)
    /\ lateAcq' = IF Releasers(KeyOf(t)) /= {} THEN lateAcq \cup {KeyOf(t)} ELSE lateAcq
    /\ Goto(t, IF createdPool[t] THEN "resetDone" ELSE "createTestDatabase")
    /\ UNCHANGED <<inputs, db, errResult, fatal, returned, info, createdPool, attempt,
                   muVars, globalDockerMu, globalDockerResources, globalDockerPool,
                   running, hostPort, dbs, crashed>>

\* lines 287-295: the function deferred by the test that created the pool
DeferredReset(t) ==
    /\ ~crashed /\ pc[t] \in {"resetDone", "resetFailed"}
    /\ globalDockerMu = 0
    /\ globalDockerPool' = IF RegistryEmpty THEN FALSE ELSE globalDockerPool
    /\ Goto(t, IF pc[t] = "resetDone" THEN "createTestDatabase" ELSE "failUnlock")
    /\ UNCHANGED <<inputs, db, errResult, fatal, returned, cleanups, info, createdPool,
                   attempt, muVars, globalDockerMu, globalDockerResources, infos,
                   running, hostPort, dbs, crashed, log, lateAcq>>

(***************************************************************************)
(* testDB.close (lines 243-275 of the lifecycle file).                     *)
(***************************************************************************)
\* fault: close drops the database in Docker mode too
ClosesAnyDatabase(d) == d.driver /= mongoDriverName

\* whether close opens a connection and issues DROP DATABASE
ClosesDatabase(d) == d.mode /= RunModeDocker /\ d.driver /= mongoDriverName

\* the call of the i-th hook with the database name, and how it ended
HookEv(i, ok, name) == [e |-> "prepareCleanUp", i |-> i, ok |-> ok, name |-> name]

\* fault: the hooks are called last first
HookEventsReversed(d, hookOk) ==
    [i \in 1..d.prepareCleanUp |->
        HookEv(d.prepareCleanUp + 1 - i, hookOk[d.prepareCleanUp + 1 - i], d.databaseName)]

\* lines 257-261: every hook is called with d.databaseName, in the order of
\* d.prepareCleanUp; its error is logged
HookEvents(d, hookOk) ==
    [i \in 1..d.prepareCleanUp |-> HookEv(i, hookOk[i], d.databaseName)]

\* fault: close returns at the first hook that fails
CloseEventsStopAtHook(d, openOk, hookOk, dropOk) ==
    <<Ev("close", 0, TRUE)>> \o
    (IF ~ClosesDatabase(d) THEN <<>>
     ELSE IF ~openOk THEN <<Ev("sql.Open", 0, FALSE)>>
     ELSE IF \E i \in 1..d.prepareCleanUp : ~hookOk[i]
       THEN LET f == CHOOSE i \in 1..d.prepareCleanUp :
                        ~hookOk[i] /\ \A j \in 1..(i - 1) : hookOk[j]
            IN SubSeq(HookEvents(d, hookOk), 1, f)
     ELSE HookEvents(d, hookOk) \o <<Ev("DROP DATABASE", 0, dropOk)>>)

\* what close does, given how sql.Open, the hooks and DROP DATABASE end
CloseEvents(d, openOk, hookOk, dropOk) ==
    <<Ev("close", 0, TRUE)>> \o
    (IF ~ClosesDatabase(d) THEN <<>>
     ELSE IF ~openOk THEN <<Ev("sql.Open", 0, FALSE)>>
     ELSE HookEvents(d, hookOk) \o <<Ev("DROP DATABASE", 0, dropOk)>>)

\* one run of close by test t; DROP DATABASE succeeds only on a database that exists
Close(t) ==
    \E openOk \in BOOLEAN, dropOk \in BOOLEAN,
       hookOk \in [1..db[t].prepareCleanUp -> BOOLEAN] :
       /\ ClosesDatabase(db[t]) /\ openOk
             => (dropOk => <<0, db[t].databaseName>> \in dbs)
       /\ ~(ClosesDatabase(db[t]) /\ openOk)
             => dropOk /\ \A i \in DOMAIN hookOk : hookOk[i]
       /\ ~ClosesDatabase(db[t]) => openOk
       /\ Logged(t, CloseEvents(db[t], openOk, hookOk, dropOk))
       /\ dbs' = IF ClosesDatabase(db[t]) /\ openOk /\ dropOk
                 THEN dbs \ {<<0, db[t].databaseName>>}
                 ELSE dbs

(***************************************************************************)
(* newTDB after the container (lines 198-221).                             *)
(***************************************************************************)
\* createTestDatabase: nothing for mongodb; else the connection to the connect
\* database (retryConnect) and CREATE DATABASE, either of which may fail
CreateTestDatabase(t) ==
    /\ ~crashed /\ pc[t] = "createTestDatabase"
    /\ IF db[t].driver = mongoDriverName
       THEN /\ Goto(t, "migrationsUp")
            /\ UNCHANGED <<errResult, dbs, log>>
       ELSE \E ok \in BOOLEAN :
               /\ errResult' = [errResult EXCEPT ![t] = IF ok THEN "" ELSE "create db"]
               /\ dbs' = IF ok
                         THEN dbs \cup {<<ServerOf(t), db[t].databaseName>>}
                         ELSE dbs
               /\ Logged(t, <<Ev("CREATE DATABASE", 0, ok)>>)
               /\ Goto(t, IF ok THEN "migrationsUp" ELSE "closeFailed")
    /\ UNCHANGED <<inputs, db, fatal, returned, cleanups, info, createdPool, attempt,
                   muVars, dockerVars, crashed, lateAcq>>

\* fault: newTDB goes on to the migrations after the close of a failed
\* createTestDatabase
CloseFailedGoesOn(t) ==
    /\ ~crashed /\ pc[t] = "closeFailed"
    /\ Close(t)
    /\ Goto(t, "migrationsUp")
    /\ UNCHANGED <<inputs, db, errResult, fatal, returned, cleanups, info, createdPool,
                   attempt, muVars, dockerVars, crashed, lateAcq>>

\* lines 199-202: close is called because createTestDatabase failed
CloseFailed(t) ==
    /\ ~crashed /\ pc[t] = "closeFailed"
    /\ Close(t)
    /\ Goto(t, "failUnlock")
    /\ UNCHANGED <<inputs, db, errResult, fatal, returned, cleanups, info, createdPool,
                   attempt, muVars, dockerVars, crashed, lateAcq>>

\* fault: the error of migrationsUp is ignored
IgnoreMigrationError == "return"

\* what newTDB does when migrationsUp returns an error: it returns nil
AfterMigrationError == "failUnlock"

\* lines 205-209: migrationsUp when a migrations directory is configured
MigrationsUp(t) ==
    /\ ~crashed /\ pc[t] = "migrationsUp"
    /\ IF db[t].migrationsDir = <<>>
       THEN /\ Goto(t, "return")
            /\ UNCHANGED <<errResult, log>>
       ELSE \E ok \in BOOLEAN :
               /\ errResult' = [errResult EXCEPT ![t] = IF ok THEN "" ELSE "migrations"]
               /\ Logged(t, <<Ev("migrationsUp", 0, ok)>>)
               /\ Goto(t, IF ok THEN "return" ELSE AfterMigrationError)
    /\ UNCHANGED <<inputs, db, fatal, returned, cleanups, info, createdPool, attempt,
                   muVars, dockerVars, dbs, crashed, lateAcq>>

\* lines 211-220: close is registered, db returned, the deferred mu.Unlock() runs
ReturnTDB(t) ==
    /\ ~crashed /\ pc[t] = "return"
    /\ cleanups' = [cleanups EXCEPT ![t] = Register(@, "close")]
    /\ globalMuByDSN' = [globalMuByDSN EXCEPT ![KeyOf(t)] = 0]
    /\ Goto(t, "connect")
    /\ UNCHANGED <<inputs, db, errResult, fatal, returned, info, createdPool, attempt,
                   globalMu, dockerVars, dbs, crashed, log, lateAcq>>

\* fault: the mutex of the connection string is not unlocked when newTDB fails
FailNewTDBLocked(t) ==
    /\ ~crashed /\ pc[t] = "failUnlock"
    /\ fatal' = [fatal EXCEPT ![t] = TRUE]
    /\ Goto(t, "cleanup")
    /\ UNCHANGED <<inputs, db, errResult, returned, cleanups, info, createdPool, attempt,
                   muVars, dockerVars, dbs, crashed, log, lateAcq>>

\* lines 168-172 and 187: nil is returned; the deferred mu.Unlock() runs, then
\* the deferred tb.Fatalf, which ends the test
FailNewTDB(t) ==
    /\ ~crashed /\ pc[t] = "failUnlock"
    /\ globalMuByDSN' = [globalMuByDSN EXCEPT ![KeyOf(t)] = 0]
    /\ fatal' = [fatal EXCEPT ![t] = TRUE]
    /\ Goto(t, "cleanup")
    /\ UNCHANGED <<inputs, db, errResult, returned, cleanups, info, createdPool, attempt,
                   globalMu, dockerVars, dbs, crashed, log, lateAcq>>

(***************************************************************************)
(* GetSQLConn (lines 13-27) and GetMongoDatabase (mongodb.go 43-60).       *)
(***************************************************************************)
\* the connection to the test database: on failure tb.Fatalf, else its close
\* is registered and the connection and the Informer are returned
Connect(t) ==
    /\ ~crashed /\ pc[t] = "connect"
    /\ \E ok \in BOOLEAN :
          /\ Logged(t, <<Ev("connect", 0, ok)>>)
          /\ fatal' = [fatal EXCEPT ![t] = ~ok]
          /\ returned' = [returned EXCEPT ![t] = ok]
          /\ cleanups' = [cleanups EXCEPT ![t] = IF ok THEN Register(@, "db.Close") ELSE @]
          /\ Goto(t, IF ok THEN "ready" ELSE "cleanup")
    /\ UNCHANGED <<inputs, db, errResult, info, createdPool, attempt, muVars, dockerVars,
                   dbs, crashed, lateAcq>>

\* the test function returns
TestEnd(t) ==
    /\ ~crashed /\ pc[t] = "ready"
    /\ Goto(t, "cleanup")
    /\ UNCHANGED <<inputs, db, errResult, fatal, returned, cleanups, info, createdPool,
                   attempt, muVars, dockerVars, dbs, crashed, log, lateAcq>>

(***************************************************************************)
(* The Informer of a testDB (lines 310-328).                               *)
(***************************************************************************)
\* fault: the database of the connection string is kept
keepDatabase(u, newDBName) == u

\* url.go 231-236, as a value: the clone of u with the database newDBName
replaceDatabase(u, newDBName) == [u EXCEPT !.Database = newDBName]

DSN(d) == string(replaceDatabase(d.url, d.databaseName), FALSE)
Host(d) == d.url.Host
Port(d) == d.url.Port
DatabaseName(d) == d.databaseName

\* lines 31-37 with testDatabase false: the connection string of
\* createSQLDatabase
createURL(d) == string(replaceDatabase(d.url, d.connectDatabase), FALSE)

\* line 253: the connection string of close
closeURL(d) == string(d.url, FALSE)

(***************************************************************************)
(* The cleanups of testing.TB, run when the test ended.                    *)
(***************************************************************************)
\* the cleanup of GetSQLConn (db.Close) or of GetMongoDatabase (Drop unless
\* the mode is docker, then Disconnect)
CleanupConn(t) ==
    /\ ~crashed /\ pc[t] = "cleanup"
    /\ cleanups[t] /= <<>> /\ NextCleanup(cleanups[t]) = "db.Close"
    /\ cleanups' = [cleanups EXCEPT ![t] = RestCleanups(@)]
    /\ IF call[t].api = "GetMongoDatabase" /\ db[t].mode /= RunModeDocker
       THEN \E ok \in BOOLEAN :
               Logged(t, <<Ev("mongo Drop", 0, ok), Ev("db.Close", 0, TRUE)>>)
       ELSE Logged(t, <<Ev("db.Close", 0, TRUE)>>)
    /\ UNCHANGED <<inputs, pc, db, errResult, fatal, returned, info, createdPool, attempt,
                   muVars, dockerVars, dbs, crashed, lateAcq>>

\* the cleanup of newTDB (lines 211-218): close, its error only logged
CleanupClose(t) ==
    /\ ~crashed /\ pc[t] = "cleanup"
    /\ cleanups[t] /= <<>> /\ NextCleanup(cleanups[t]) = "close"
    /\ cleanups' = [cleanups EXCEPT ![t] = RestCleanups(@)]
    /\ Close(t)
    /\ UNCHANGED <<inputs, pc, db, errResult, fatal, returned, info, createdPool, attempt,
                   muVars, dockerVars, crashed, lateAcq>>

\* fault: every release purges
AnyReference(count) == TRUE

\* line 387: the test the release callback makes of the decremented count
LastReference(count) == count = 0

\* docker.go lines 383-387 and 417: info.mu.Lock(), info.count--; with
\* references left the callback is over and info.mu released
Release(t) ==
    /\ ~crashed /\ pc[t] = "cleanup"
    /\ cleanups[t] /= <<>> /\ NextCleanup(cleanups[t]) = "release"
    /\ infos[info[t]].mu = 0
    /\ cleanups' = [cleanups EXCEPT ![t] = RestCleanups(@)]
    /\ infos' = [infos EXCEPT ![info[t]].count = @ - 1,
                              ![info[t]].mu = IF LastReference(infos[info[t]].count - 1)
                                              THEN t ELSE 0]
    /\ Logged(t, <<Ev("release", infos[info[t]].count - 1, TRUE)>>)
    /\ Goto(t, IF LastReference(infos[info[t]].count - 1) THEN "delete" ELSE "cleanup")
    /\ UNCHANGED <<inputs, db, errResult, fatal, returned, info, createdPool, attempt,
                   muVars, globalDockerMu, globalDockerResources, globalDockerPool,
                   running, hostPort, dbs, crashed, lateAcq>>

\* fault: the last release leaves the entry in the registry
ReleaseKeepsEntry(t) ==
    /\ ~crashed /\ pc[t] = "delete"
    /\ globalDockerMu = 0
    /\ globalDockerMu' = t
    /\ attempt' = [attempt EXCEPT ![t] = 0]
    /\ Goto(t, "purge")
    /\ UNCHANGED <<inputs, db, errResult, fatal, returned, cleanups, info, createdPool,
                   muVars, globalDockerPool, globalDockerResources, infos, running,
                   hostPort, dbs, crashed, log, lateAcq>>

\* lines 388-391: globalDockerMu.Lock() and the entry is deleted
ReleaseDelete(t) ==
    /\ ~crashed /\ pc[t] = "delete"
    /\ globalDockerMu = 0
    /\ globalDockerMu' = t
    /\ globalDockerResources' = [globalDockerResources EXCEPT ![KeyOf(t)] = 0]
    /\ attempt' = [attempt EXCEPT ![t] = 0]
    /\ Goto(t, "purge")
    /\ UNCHANGED <<inputs, db, errResult, fatal, returned, cleanups, info, createdPool,
                   muVars, globalDockerPool, infos, running, hostPort, dbs, crashed, log,
                   lateAcq>>

\* lines 399-414: a Purge of the container succeeds; its databases go with it
PurgeOK(t) ==
    /\ ~crashed /\ pc[t] = "purge"
    /\ globalDockerPool
    /\ attempt[t] <= purgeMaxRetries
    /\ infos[info[t]].resource \in running
    /\ running' = running \ {infos[info[t]].resource}
    /\ dbs' = {d \in dbs : d[1] /= infos[info[t]].resource}
    /\ attempt' = [attempt EXCEPT ![t] = 0]
    /\ Logged(t, <<Ev("purge", infos[info[t]].resource, TRUE)>>)
    /\ Goto(t, "releaseUnlock")
    /\ UNCHANGED <<inputs, db, errResult, fatal, returned, cleanups, info, createdPool,
                   muVars, globalDockerMu, globalDockerResources,
                   globalDockerPool, infos, hostPort, crashed, lateAcq>>

\* lines 400-404: a Purge fails and is counted
PurgeFail(t) ==
    /\ ~crashed /\ pc[t] = "purge"
    /\ globalDockerPool
    /\ attempt[t] <= purgeMaxRetries
    /\ attempt' = [attempt EXCEPT ![t] = @ + 1]
    /\ UNCHANGED <<inputs, pc, db, errResult, fatal, returned, cleanups, info, createdPool,
                   muVars, dockerVars, dbs, crashed, log, lateAcq>>

\* lines 409-412: after a failure backoff.Retry finds the time used up and
\* returns the error, which is logged
PurgeGiveUp(t) ==
    /\ ~crashed /\ pc[t] = "purge"
    /\ attempt[t] >= 1
    /\ attempt' = [attempt EXCEPT ![t] = 0]
    /\ Logged(t, <<Ev("purge", infos[info[t]].resource, FALSE)>>)
    /\ Goto(t, "releaseUnlock")
    /\ UNCHANGED <<inputs, db, errResult, fatal, returned, cleanups, info, createdPool,
                   muVars, dockerVars, dbs, crashed, lateAcq>>

\* line 400 with globalDockerPool nil: the call dereferences nil
PurgeNilPool(t) ==
    /\ ~crashed /\ pc[t] = "purge"
    /\ ~globalDockerPool
    /\ attempt[t] <= purgeMaxRetries
    /\ crashed' = TRUE
    /\ Goto(t, "panic")
    /\ UNCHANGED <<inputs, db, errResult, fatal, returned, cleanups, info, createdPool,
                   attempt, muVars, dockerVars, dbs, log, lateAcq>>

\* lines 384 and 389: the deferred unlocks of the release callback
ReleaseUnlock(t) ==
    /\ ~crashed /\ pc[t] = "releaseUnlock"
    /\ globalDockerMu' = 0
    /\ infos' = [infos EXCEPT ![info[t]].mu = 0]
    /\ Goto(t, "cleanup")
    /\ UNCHANGED <<inputs, db, errResult, fatal, returned, cleanups, info, createdPool,
                   attempt, muVars, globalDockerResources, globalDockerPool, running,
                   hostPort, dbs, crashed, log, lateAcq>>

\* every cleanup ran: the test is over
Finish(t) ==
    /\ ~crashed /\ pc[t] = "cleanup"
    /\ cleanups[t] = <<>>
    /\ Goto(t, "done")
    /\ UNCHANGED <<inputs, db, errResult, fatal, returned, cleanups, info, createdPool,
                   attempt, muVars, dockerVars, dbs, crashed, log, lateAcq>>

(***************************************************************************)
(* A teardown callback invoked once more than testing.TB does.             *)
(***************************************************************************)
\* the callbacks newTDB registered for test t, as tb.Cleanup holds them
Registered(t) ==
    (IF db[t].mode = RunModeDocker THEN <<"release">> ELSE <<>>) \o <<"close">>

\* the callbacks of a constructed instance, which already ran, are run again
TeardownAgain(t) ==
    /\ ~crashed /\ pc[t] = "done"
    /\ returned[t]
    /\ \A i \in 1..Len(log[t]) : log[t][i].e /= "again"
    /\ cleanups' = [cleanups EXCEPT ![t] = Registered(t)]
    /\ Logged(t, <<Ev("again", 0, TRUE)>>)
    /\ Goto(t, "cleanup")
    /\ UNCHANGED <<inputs, db, errResult, fatal, returned, info, createdPool, attempt,
                   muVars, dockerVars, dbs, crashed, lateAcq>>

(***************************************************************************)
(* The specification.                                                      *)
(***************************************************************************)
Next ==
    \E t \in Procs :
        \/ NewTDB(t) \/ GlobalMuLock(t) \/ GlobalMuUnlock(t) \/ MuLock(t)
        \/ LookupWithPool(t) \/ LookupNewPool(t) \/ LookupPoolError(t)
        \/ DockerUnlock(t) \/ InfoLock(t)
        \/ RunOK(t) \/ RunPortConflict(t) \/ RunError(t) \/ RunNilPool(t)
        \/ StartFailed(t) \/ UseExisting(t) \/ InsertEntry(t) \/ AcquireDone(t)
        \/ DeferredReset(t)
        \/ CreateTestDatabase(t) \/ CloseFailed(t) \/ MigrationsUp(t)
        \/ ReturnTDB(t) \/ FailNewTDB(t) \/ Connect(t) \/ TestEnd(t)
        \/ CleanupConn(t) \/ CleanupClose(t)
        \/ Release(t) \/ ReleaseDelete(t)
        \/ PurgeOK(t) \/ PurgeFail(t) \/ PurgeGiveUp(t) \/ PurgeNilPool(t)
        \/ ReleaseUnlock(t) \/ Finish(t)

Spec == Init /\ [][Next]_vars

\* the steps of a test after the call of newTDB has begun
Running ==
    \E t \in Procs :
        \/ GlobalMuLock(t) \/ GlobalMuUnlock(t) \/ MuLock(t)
        \/ LookupWithPool(t) \/ LookupNewPool(t) \/ LookupPoolError(t)
        \/ DockerUnlock(t) \/ InfoLock(t)
        \/ RunOK(t) \/ RunPortConflict(t) \/ RunError(t) \/ RunNilPool(t)
        \/ StartFailed(t) \/ UseExisting(t) \/ InsertEntry(t) \/ AcquireDone(t)
        \/ DeferredReset(t)
        \/ CreateTestDatabase(t) \/ CloseFailed(t) \/ MigrationsUp(t)
        \/ ReturnTDB(t) \/ FailNewTDB(t) \/ Connect(t) \/ TestEnd(t)
        \/ CleanupConn(t) \/ CleanupClose(t)
        \/ Release(t) \/ ReleaseDelete(t)
        \/ PurgeOK(t) \/ PurgeFail(t) \/ PurgeGiveUp(t) \/ PurgeNilPool(t)
        \/ ReleaseUnlock(t) \/ Finish(t)

\* NewTDB is enabled exactly when some test has not begun, and it is the only
\* step that begins a test
CanStart == ~crashed /\ \E t \in Procs : pc[t] = "start"

Begins == \E t \in Procs : pc[t] = "start" /\ pc'[t] # "start"

\* the tests of Spec run by goroutines: while some test can take a step the
\* scheduler runs one; a goroutine waiting in Lock can take its step when
\* the mutex is free.  The second conjunct is weak fairness of NewTDB,
\* written with CanStart for its enabling condition.
Fairness == WF_vars(Running) /\ ([]<>(~CanStart) \/ []<><<Begins>>_vars)

SpecLive == Spec /\ Fairness

\* one test makes any kind of call in any environment, beside tests that
\* share a container
InitLife ==
    /\ env \in Environments
    /\ extBound = {}
    /\ call \in {c \in [Procs -> AllCalls] : \A t \in Procs \ {1} : c[t] = PeerCall(dsnB)}
    /\ InitState /\ NoRuns

SpecLife == InitLife /\ [][Next]_vars

\* a real database and containers, the callbacks invoked a second time
InitReinvoke ==
    /\ env = [n \in {} |-> <<>>]
    /\ extBound = {}
    /\ call \in {c \in [Procs -> ValidCalls] : \A t \in Procs \ {1} : c[t] = PeerCall(dsnB)}
    /\ InitState /\ NoRuns

NextReinvoke == Next \/ \E t \in Procs : TeardownAgain(t)

SpecReinvoke == InitReinvoke /\ [][NextReinvoke]_vars

(***************************************************************************)
(* retryConnect (part_002 287-308): backoff.Retry with a constant back-off *)
(* and a maximal elapsed time, followed on its own. Time is counted in     *)
(* whole units from the start of backoff.Retry.                            *)
(***************************************************************************)
\* the largest retryTimeout, totalRetryDuration and duration of one op()
MaxRetryTimeout == 3
MaxTotalDuration == 5
MaxOpTime == 2

\* d.retryTimeout: any duration from 0 (WithRetryTimeout sets it unchecked)
RetryTimeouts == 0..MaxRetryTimeout
\* d.totalRetryDuration: newTDB's literal sets a positive duration
TotalDurations == 1..MaxTotalDuration
\* the time one op() takes, 0 when it is below the unit
OpTimes == 0..MaxOpTime

\* fault: the interval grows with the number of tries
GrowingBackOff(interval, tries) == interval * tries

\* backoff.NewConstantBackOff(d.retryTimeout).NextBackOff()
NextBackOff(interval, tries) == interval

\* fault: the counter is not advanced
SameAttempt(a) == a

\* line 292: attempt++
NextAttempt(a) == a + 1

\* backoff.Retry with WithMaxElapsedTime: the test made after a failed
\* operation, MaxElapsedTime > 0 && time.Since(startedAt)+next > MaxElapsedTime
MaxElapsedExceeded(elapsed, next, maxElapsed) ==
    maxElapsed > 0 /\ elapsed + next > maxElapsed

\* the result of retryConnect: nil (err 0), or the error that wraps the
\* error err and states attempt
Returned(err, a) == [err |-> err, attempt |-> a]

\* retryConnect is entered: attempt is 0 and nothing has been invoked. now is
\* time.Since(startedAt); err is the error of the last operation, 0 for nil,
\* the k-th invocation failing with the error k. invoked, okAt (the first
\* invocation that succeeded), lastEnd and gaps (the times between the end of
\* an invocation and the start of the next) are history.
NewRetry(rt, total) ==
    [pc |-> "operation", retryTimeout |-> rt, totalRetryDuration |-> total,
     attempt |-> 0, now |-> 0, err |-> 0, ret |-> Returned(0, 0),
     invoked |-> 0, okAt |-> 0, lastEnd |-> 0, gaps |-> {}]

\* op() is invoked and takes dur: the history of the invocation
Invoked(r, dur) ==
    [r EXCEPT !.invoked = @ + 1, !.now = @ + dur, !.lastEnd = r.now + dur,
              !.gaps = IF r.invoked > 0 THEN @ \cup {r.now - r.lastEnd} ELSE @]

\* the clock advances between two invocations: an op() below the unit is
\* followed by a wait of at least one unit
TimePasses(r, dur) == dur + r.retryTimeout > 0

\* lines 289-296 and backoff.Retry: op() returns nil, Retry returns nil and
\* so does retryConnect
OperationOK ==
    /\ retry.pc = "operation"
    /\ \E dur \in OpTimes :
          /\ TimePasses(retry, dur)
          /\ retry' = [Invoked(retry, dur) EXCEPT !.okAt = retry.invoked + 1, !.err = 0,
                                                  !.ret = Returned(0, 0), !.pc = "done"]
    /\ UNCHANGED <<testVars, codec>>

\* lines 290-293: op() fails, the failure is logged and attempt is advanced
OperationFails ==
    /\ retry.pc = "operation"
    /\ \E dur \in OpTimes :
          /\ TimePasses(retry, dur)
          /\ retry' = [Invoked(retry, dur) EXCEPT !.err = retry.invoked + 1,
                                                  !.attempt = NextAttempt(@),
                                                  !.pc = "failed"]
    /\ UNCHANGED <<testVars, codec>>

\* backoff.Retry returns the error of the operation once the next wait would
\* pass the maximal elapsed time; lines 303-305 wrap it
RetryGiveUp ==
    /\ retry.pc = "failed"
    /\ MaxElapsedExceeded(retry.now, NextBackOff(retry.retryTimeout, retry.invoked),
                          retry.totalRetryDuration)
    /\ retry' = [retry EXCEPT !.ret = Returned(retry.err, retry.attempt), !.pc = "done"]
    /\ UNCHANGED <<testVars, codec>>

\* backoff.Retry waits for the timer of the next back-off and tries again
RetryWait ==
    /\ retry.pc = "failed"
    /\ ~MaxElapsedExceeded(retry.now, NextBackOff(retry.retryTimeout, retry.invoked),
                           retry.totalRetryDuration)
    /\ retry' = [retry EXCEPT !.now = @ + NextBackOff(retry.retryTimeout, retry.invoked),
                              !.pc = "operation"]
    /\ UNCHANGED <<testVars, codec>>

\* the tests stay where they are
IdleTests ==
    /\ env = [n \in {} |-> <<>>]
    /\ extBound = {}
    /\ call = [t \in Procs |-> PeerCall(dsnA)]
    /\ InitState

InitRetry ==
    /\ IdleTests
    /\ codec = [pc |-> "none"]
    /\ retry \in {NewRetry(rt, total) : rt \in RetryTimeouts, total \in TotalDurations}

NextRetry == OperationOK \/ OperationFails \/ RetryGiveUp \/ RetryWait

\* the goroutine that runs retryConnect is not stopped
SpecRetry == InitRetry /\ [][NextRetry]_vars /\ WF_vars(NextRetry)

(***************************************************************************)
(* url.go: parseURL and dbURL.string applied to connection strings, one    *)
(* text a run. The texts are put together from parts, right and wrong.     *)
(***************************************************************************)
\* nothing, "p://", "://"
Protocols ==
    {<<>>,
     <<"p", ":", "/", "/">>,
     <<":", "/", "/">>}

\* nothing, "u:p@", and credentials without ":", user or password; the
\* passwords "p@q", "/\\:" and "a://b"
Credentials ==
    {<<>>,
     <<"u", ":", "p", "@">>,
     <<"u", "@">>,
     <<":", "p", "@">>,
     <<"u", ":", "@">>,
     <<"u", ":", "p", "@", "q", "@">>,
     <<"u", ":", "/", "\\", ":", "@">>,
     <<"u", ":", "a", ":", "/", "/", "b", "@">>}

\* host and port: right, with a port of two digits, with a zero or a sign
\* before it, 0, no number, no port, no host, nothing
Addresses ==
    {<<"h", ":", "1">>,
     <<"h", ":", "1", "2">>,
     <<"h", ":", "0", "1">>,
     <<"h", ":", "+", "1">>,
     <<"h", ":", "0">>,
     <<"h", ":", "x">>,
     <<"h", ":">>,
     <<"h">>,
     <<":", "1">>,
     <<>>}

\* no transport, "t", and parentheses without a name
Transports ==
    {<<>>,
     <<"t">>,
     <<"(">>}

\* the address a, bare or in the parentheses of the transport tr
InTransport(tr, a) ==
    IF tr = <<>> THEN a
    ELSE IF tr = <<"(">> THEN <<"(">> \o a \o <<")">>
    ELSE tr \o <<"(">> \o a \o <<")">>

\* nothing, "/d", and "/" alone
Databases ==
    {<<>>,
     <<"/", "d">>,
     <<"/">>}

\* nothing; one and two options, in and out of order; "?" alone; a pair
\* without "="; a key twice; an empty key; a key that begins another; a
\* value with "@"
Queries ==
    {<<>>,
     <<"?", "a", "=", "1">>,
     <<"?", "a", "=", "1", "&", "b", "=", "2">>,
     <<"?", "b", "=", "2", "&", "a", "=", "1">>,
     <<"?">>,
     <<"?", "a">>,
     <<"?", "a", "=", "1", "&", "a", "=", "2">>,
     <<"?", "=", "1">>,
     <<"?", "a", "b", "=", "1", "&", "b", "=", "2">>,
     <<"?", "a", "=", "@", "h", ":", "1">>}

\* the connection strings of mongodb_test.go (TestURL_Parse,
\* TestParse_RoundTrip), one whose user, password and database are the
\* protocol's name, and wrong ones of each kind
Examples ==
    {<<"p", "o", "s", "t", "g", "r", "e", "s", ":", "/", "/", "u", "s", "e", "r", ":", "p", "a", "s", "s", "@", "l", "o", "c", "a", "l", "h", "o", "s", "t", ":", "5", "4", "3", "2">>,
     <<"p", "o", "s", "t", "g", "r", "e", "s", ":", "/", "/", "u", "s", "e", "r", ":", "p", "a", "s", "s", "@", "s", "s", "l", "(", "l", "o", "c", "a", "l", "h", "o", "s", "t", ":", "5", "4", "3", "2", ")", "/", "m", "y", "d", "b", "?", "s", "s", "l", "m", "o", "d", "e", "=", "v", "e", "r", "i", "f", "y", "-", "f", "u", "l", "l", "&", "t", "i", "m", "e", "o", "u", "t", "=", "3", "0">>,
     <<"m", "y", "s", "q", "l", ":", "/", "/", "r", "o", "o", "t", ":", "s", "e", "c", "r", "e", "t", "@", "t", "c", "p", "(", "1", "2", "7", ".", "0", ".", "0", ".", "1", ":", "3", "3", "0", "6", ")", "/", "t", "e", "s", "t", "d", "b", "?", "c", "h", "a", "r", "s", "e", "t", "=", "u", "t", "f", "8", "&", "o", "p", "t", "2", "=", "v", "a", "l", "2">>,
     <<"p", "o", "s", "t", "g", "r", "e", "s", ":", "/", "/", "u", "s", "e", "r", ":", "p", "@", "s", "s", "/", "\\", ":", "!", "w", "0", "r", "d", "@", "l", "o", "c", "a", "l", "h", "o", "s", "t", ":", "5", "4", "3", "2", "/", "m", "y", "d", "b">>,
     <<"p", "o", "s", "t", "g", "r", "e", "s", ":", "/", "/", "p", "o", "s", "t", "g", "r", "e", "s", ":", "p", "o", "s", "t", "g", "r", "e", "s", "@", "l", "o", "c", "a", "l", "h", "o", "s", "t", ":", "5", "4", "3", "2", "/", "p", "o", "s", "t", "g", "r", "e", "s">>,
     <<":", "/", "/", "x">>,
     <<"u", "s", "e", "r", "@", "h", "o", "s", "t", ":", "1">>,
     <<":", "p", "@", "h", "o", "s", "t", ":", "1">>,
     <<"u", ":", "@", "h", "o", "s", "t", ":", "1">>,
     <<"u", ":", "p", "@", ":", "1">>,
     <<"u", ":", "p", "@", "h", "o", "s", "t", ":">>}

\* every connection string a run is made on
ConnStrs ==
    Examples \cup
    {p \o c \o InTransport(tr, a) \o d \o q :
        p \in Protocols, c \in Credentials, tr \in Transports, a \in Addresses,
        d \in Databases, q \in Queries}

\* no dbURL yet
NoURL == [err |-> "nil"]

\* a run on connStr, before parseURL is called
NewCodec(connStr) ==
    [pc |-> "input", connStr |-> connStr, u |-> NoURL, text |-> <<>>, again |-> NoURL,
     hidden |-> <<>>]

\* parseURL(connStr)
ParseInput ==
    /\ codec.pc = "input"
    /\ codec' = [codec EXCEPT !.u = parseURL(codec.connStr), !.pc = "parsed"]
    /\ UNCHANGED <<testVars, retry>>

\* u.string(false) on the dbURL parseURL returned
Serialize ==
    /\ codec.pc = "parsed" /\ codec.u.err = ""
    /\ codec' = [codec EXCEPT !.text = string(codec.u, FALSE), !.pc = "serialized"]
    /\ UNCHANGED <<testVars, retry>>

\* u.string(true) on the dbURL parseURL returned, as the connect functions
\* call it for the log and for retryConnect
SerializeHidden ==
    /\ codec.pc = "parsed" /\ codec.u.err = ""
    /\ codec' = [codec EXCEPT !.hidden = string(codec.u, TRUE), !.pc = "hidden"]
    /\ UNCHANGED <<testVars, retry>>

\* parseURL on the text string returned
ParseAgain ==
    /\ codec.pc = "serialized"
    /\ codec' = [codec EXCEPT !.again = parseURL(codec.text), !.pc = "done"]
    /\ UNCHANGED <<testVars, retry>>

InitCodec ==
    /\ IdleTests
    /\ retry = [pc |-> "none"]
    /\ codec \in {NewCodec(connStr) : connStr \in ConnStrs}

NextCodec == ParseInput \/ Serialize \/ SerializeHidden \/ ParseAgain

SpecCodec == InitCodec /\ [][NextCodec]_vars

(***************************************************************************)
(* url.go: clone and replaceDatabase (lines 206-236). A *dbURL is a        *)
(* pointer to a struct whose Options field refers to a map; structs and    *)
(* maps live in a heap, 0 is nil.                                          *)
(***************************************************************************)
\* the number of changes made to the copy
MaxEdits == 2

\* the dbURLs the calls are made on: nil (0 in the heap), one without options
\* and one with every field and two options
CloneInputs ==
    {<<>>, dsnA, <<"p", ":", "/", "/", "u", ":", "p", "@", "t", "(", "h", ":", "1", ")", "/", "d", "?", "a", "=", "1", "&", "b", "=", "2">>}

\* the names given to replaceDatabase, and the keys and values written to
\* the options of the copy
NewNames == {<<>>, <<"t", "_", "1">>}
EditKeys == {<<"a">>, <<"c">>}
EditValues == {<<"1">>, <<"9">>}

\* the fields of a dbURL but Options
PlainFields == {"Protocol", "Transport", "User", "Password", "Host", "Database"}

\* the struct of a dbURL whose Options field refers to the map m
StructOf(u, m) ==
    [Protocol |-> u.Protocol, Transport |-> u.Transport, User |-> u.User,
     Password |-> u.Password, Host |-> u.Host, Port |-> u.Port,
     Database |-> u.Database, Options |-> m]

\* the heap with the dbURL parseURL returns for connStr at the address 1, its
\* map at the map address 1; u is nil when parseURL fails. u0 is what u
\* points to at the start (history), edits counts the changes to the copy.
NewHeap(connStr) ==
    IF parseURL(connStr).err /= ""
    THEN [pc |-> "call", u |-> 0, copy |-> 0, name |-> <<>>, edits |-> 0,
          structs |-> <<>>, maps |-> <<>>, u0 |-> 0]
    ELSE [pc |-> "call", u |-> 1, copy |-> 0, name |-> <<>>, edits |-> 0,
          structs |-> <<StructOf(parseURL(connStr), 1)>>,
          maps |-> <<parseURL(connStr).Options>>,
          u0 |-> StructOf(parseURL(connStr), parseURL(connStr).Options)]

\* what the pointer ptr points to in the heap h, the map in place of its
\* address; 0 for nil
Deref(h, ptr) ==
    IF ptr = 0 THEN 0
    ELSE [h.structs[ptr] EXCEPT !.Options = h.maps[h.structs[ptr].Options]]

\* fault: the copy refers to the map of the source
ShareOptions(h) == h

\* lines 220-226: make(map[string]string, len(u.Options)) and the copy of
\* every pair into it
CopyOptions(h) ==
    [h EXCEPT !.maps = Append(@, h.maps[h.structs[h.u].Options]),
              !.structs[Len(h.structs)].Options = Len(h.maps) + 1]

\* lines 212-219: a new struct with the fields of u
CopyStruct(h) ==
    [h EXCEPT !.structs = Append(@, h.structs[h.u]), !.copy = Len(h.structs) + 1]

\* clone: nil for nil, else a new struct with a new map
clone(h) == IF h.u = 0 THEN [h EXCEPT !.copy = 0] ELSE CopyOptions(CopyStruct(h))

\* u.clone() is called
Clone ==
    /\ codec.pc = "call"
    /\ codec' = [clone(codec) EXCEPT !.pc = "cloned"]
    /\ UNCHANGED <<testVars, retry>>

\* u.replaceDatabase(name): clone, then the Database of the clone is set
ReplaceDatabase ==
    /\ codec.pc = "call" /\ codec.u /= 0
    /\ \E name \in NewNames :
          codec' = [clone(codec) EXCEPT !.structs[clone(codec).copy].Database = name,
                                       !.name = name, !.pc = "replaced"]
    /\ UNCHANGED <<testVars, retry>>

\* nil.replaceDatabase(name): clone returns nil and the assignment to
\* clone.Database dereferences it
ReplaceDatabaseNil ==
    /\ codec.pc = "call" /\ codec.u = 0
    /\ codec' = [codec EXCEPT !.pc = "panic"]
    /\ UNCHANGED <<testVars, retry>>

\* the caller writes a pair to the Options of the copy
EditOption ==
    /\ codec.pc \in {"cloned", "replaced"} /\ codec.copy /= 0 /\ codec.edits < MaxEdits
    /\ \E k \in EditKeys, v \in EditValues :
          codec' = [codec EXCEPT
                       !.maps[codec.structs[codec.copy].Options] =
                           [x \in (DOMAIN @) \cup {k} |-> IF x = k THEN v ELSE @[x]],
                       !.edits = @ + 1]
    /\ UNCHANGED <<testVars, retry>>

\* the caller deletes a key from the Options of the copy
DeleteOption ==
    /\ codec.pc \in {"cloned", "replaced"} /\ codec.copy /= 0 /\ codec.edits < MaxEdits
    /\ \E k \in EditKeys :
          codec' = [codec EXCEPT
                       !.maps[codec.structs[codec.copy].Options] =
                           [x \in (DOMAIN @) \ {k} |-> @[x]],
                       !.edits = @ + 1]
    /\ UNCHANGED <<testVars, retry>>

\* the caller assigns to a field of the copy
EditField ==
    /\ codec.pc \in {"cloned", "replaced"} /\ codec.copy /= 0 /\ codec.edits < MaxEdits
    /\ \E f \in PlainFields :
          codec' = [codec EXCEPT !.structs[codec.copy][f] = <<"z">>, !.edits = @ + 1]
    /\ UNCHANGED <<testVars, retry>>

InitClone ==
    /\ IdleTests
    /\ retry = [pc |-> "none"]
    /\ codec \in {NewHeap(connStr) : connStr \in CloneInputs}

NextClone ==
    \/ Clone \/ ReplaceDatabase \/ ReplaceDatabaseNil
    \/ EditOption \/ DeleteOption \/ EditField

SpecClone == InitClone /\ [][NextClone]_vars

(***************************************************************************)
(* Reading the history.                                                    *)
(***************************************************************************)
\* the entries e of the history of test t
Entries(t, e) == {i \in 1..Len(log[t]) : log[t][i].e = e}

\* how often test t did e
Count(t, e) == Cardinality(Entries(t, e))

\* test t did e with the outcome ok
Has(t, e, ok) == \E i \in Entries(t, e) : log[t][i].ok = ok

\* the place of the first e in the history of test t
Pos(t, e) == CHOOSE i \in Entries(t, e) : \A j \in Entries(t, e) : i <= j

\* the tests whose connection string is k
TestsOf(k) == {t \in Procs : db[t].dsn = k}

\* the tests that took a reference to the container of k
Acquirers(k) == {t \in TestsOf(k) : Has(t, "acquire", TRUE)}

\* test t is inside createDockerResources, past the lookup
InAcquire(t) == pc[t] \in {"dockerUnlock", "infoLock", "run", "reuse", "insert", "count"}

\* every acquisition of k so far was over before the first release of k began
AllAcquireBeforeRelease(k) ==
    /\ k \notin lateAcq
    /\ Releasers(k) /= {} => \A t \in TestsOf(k) : ~InAcquire(t)

\* the container starts, resp. ended purges, the tests of k made
Starts(k) == UNION {{<<t, i>> : i \in Entries(t, "start")} : t \in TestsOf(k)}
Purges(k) == UNION {{<<t, i>> : i \in Entries(t, "purge")} : t \in TestsOf(k)}

\* test t is in the part of its release callback that removes the container
Purging(t) == pc[t] \in {"delete", "purge", "releaseUnlock"} \/ Count(t, "purge") > 0

C2_StartSectionExclusive ==
    \A t, q \in Procs :
        (t /= q /\ db[t].dsn = db[q].dsn) => ~(pc[t] = "run" /\ pc[q] = "run")

\* one test is in the start loop while another with the same connection
\* string waits for the mutex of that string
C2_Witness ==
    \E t, q \in Procs :
        /\ t /= q /\ db[t].dsn = db[q].dsn
        /\ pc[t] = "run" /\ attempt[t] > 0
        /\ pc[q] = "muLock"

\* test t holds a reference to a container
Holding(t) == Has(t, "acquire", TRUE) /\ Count(t, "release") = 0

\* the host port the call of test t asks for
Requested(t) == parseURL(call[t].dsn).Port

\* C3: every test that holds a reference, the one that started the container
\* or a later one, has in its working descriptor the port recorded on the
\* registry entry; that port is the one the running container is bound to,
\* is not below the requested one, is bound by nothing else, and is higher
\* than the requested one when that was bound by another program.
C3_ResolvedPortShared ==
    /\ \A t \in Procs :
          Holding(t) =>
              LET i == infos[info[t]] IN
              /\ db[t].url.Port = i.port
              /\ i.resource \in running /\ hostPort[i.resource] = i.port
              /\ i.port >= Requested(t)
              /\ i.port \notin extBound
              /\ Requested(t) \in extBound => i.port > Requested(t)
    /\ \A c, d \in running : c /= d => hostPort[c] /= hostPort[d]

\* the requested port was bound; two tests share the container on a higher port
C3_Witness ==
    \E t, q \in Procs :
        /\ t /= q /\ Holding(t) /\ Holding(q) /\ info[t] = info[q]
        /\ Count(t, "start") = 1 /\ Count(q, "start") = 0
        /\ Requested(q) \in extBound
        /\ db[q].url.Port > Requested(q) /\ db[q].url.Port = infos[info[t]].port

\* the containers running for the key k
RunningFor(k) == {c \in running : db[c].dsn = k}

\* the purge of container c was given up after its retries
Abandoned(c) == \E t \in Procs : \E i \in Entries(t, "purge") :
                    log[t][i].i = c /\ ~log[t][i].ok

\* C4 as stated: for each registry key at most one container that was started
\* and not yet successfully purged, also when a purge failed after its retries.
C4_AtMostOneActive ==
    \A k \in Keys : Cardinality(RunningFor(k)) <= 1

\* C4 as the code has it: for each registry key at most one container is
\* running beside those whose purge was given up after its retries.
C4_AtMostOneActiveUnlessAbandoned ==
    \A k \in Keys : Cardinality({c \in RunningFor(k) : ~Abandoned(c)}) <= 1

\* a container whose purge was given up runs beside a new one for the same key
C4_Witness ==
    \E k \in Keys :
        /\ Cardinality(RunningFor(k)) = 2
        /\ Cardinality({c \in RunningFor(k) : ~Abandoned(c)}) = 1

\* C5 as stated: a teardown callback of an instance (close, the release
\* callback) invoked a second time issues no second DROP DATABASE, runs no
\* second purge and does not decrement the reference count again.
C5_TeardownIdempotent ==
    \A t \in Procs :
        /\ Count(t, "DROP DATABASE") <= 1
        /\ Count(t, "purge") <= 1
        /\ Count(t, "release") <= 1

\* a step of the setup of test t failed
FailedSetup(t) ==
    \/ Has(t, "prepareOptions", FALSE) \/ Has(t, "parseURL", FALSE)
    \/ Has(t, "acquire", FALSE) \/ Has(t, "CREATE DATABASE", FALSE)
    \/ Has(t, "migrationsUp", FALSE) \/ Has(t, "connect", FALSE)

\* test t runs its cleanups, or ran them
InTeardown(t) == pc[t] \in {"cleanup", "delete", "purge", "releaseUnlock", "done"}

\* C6: for an instance handed to the test, the connection's close, the
\* lifecycle close (with its DROP DATABASE on a real SQL database) and the
\* release of the container reference run at most once each and in this
\* order, and when the test is over each ran exactly once (the release
\* exactly when the mode is docker).
C6_TeardownOrder ==
    \A t \in Procs :
        returned[t] =>
            /\ Count(t, "db.Close") <= 1 /\ Count(t, "close") <= 1
            /\ Count(t, "release") <= 1 /\ Count(t, "DROP DATABASE") <= 1
            /\ Count(t, "close") = 1
                  => Count(t, "db.Close") = 1 /\ Pos(t, "db.Close") < Pos(t, "close")
            /\ Count(t, "DROP DATABASE") = 1
                  => Count(t, "close") = 1 /\ Pos(t, "close") < Pos(t, "DROP DATABASE")
            /\ Count(t, "release") = 1
                  => Count(t, "close") = 1 /\ Pos(t, "close") < Pos(t, "release")
            /\ pc[t] = "done"
                  => /\ Count(t, "db.Close") = 1 /\ Count(t, "close") = 1
                     /\ Count(t, "release") = 1 <=> db[t].mode = RunModeDocker
                     /\ (/\ db[t].mode /= RunModeDocker
                         /\ db[t].driver /= mongoDriverName
                         /\ ~Has(t, "sql.Open", FALSE)) => Count(t, "DROP DATABASE") = 1

\* a docker instance and an instance on a real database were torn down
C6_Witness ==
    /\ \E t \in Procs : /\ returned[t] /\ pc[t] = "done"
                        /\ db[t].mode = RunModeDocker /\ Count(t, "release") = 1
    /\ \E t \in Procs : /\ returned[t] /\ pc[t] = "done"
                        /\ db[t].mode = RunModeExternal /\ Has(t, "DROP DATABASE", TRUE)

\* C7: a test with a failed setup step (option validation, parse of the
\* connection string, container acquisition, creation of the database,
\* migration, connection) is never handed an instance and has tb.Fatalf
\* called by the time its cleanups run; a test that is handed an instance
\* had every configured step succeed.
C7_SetupFailureIsFatal ==
    \A t \in Procs :
        /\ FailedSetup(t) => /\ ~returned[t]
                             /\ InTeardown(t) => fatal[t]
        /\ returned[t] =>
              /\ Has(t, "prepareOptions", TRUE) /\ Has(t, "connect", TRUE)
              /\ db[t].mode = RunModeDocker => Has(t, "acquire", TRUE)
              /\ db[t].driver /= mongoDriverName => Has(t, "CREATE DATABASE", TRUE)
              /\ call[t].opt.migrationsDir /= <<>> => Has(t, "migrationsUp", TRUE)

\* a test whose migration failed ended fatally without an instance
C7_Witness ==
    \E t \in Procs :
        Has(t, "migrationsUp", FALSE) /\ fatal[t] /\ ~returned[t] /\ pc[t] = "done"

\* C8 as stated: when the creation of the database or the migration failed,
\* close is still invoked and a reference taken is released by the end of the test.
C8_TeardownAfterFailedStep ==
    \A t \in Procs :
        (pc[t] = "done" /\ (Has(t, "CREATE DATABASE", FALSE) \/ Has(t, "migrationsUp", FALSE)))
            => /\ Count(t, "close") >= 1
               /\ Has(t, "acquire", TRUE) => Count(t, "release") >= 1

\* C9: a failure in teardown (a hook, DROP DATABASE, the purge given up
\* after its retries) does not make the test fail, and the steps after it
\* run: a close that opened its connection runs every hook and DROP DATABASE
\* whatever fails, and a test that is over ran every callback it registered.
C9_TeardownFailuresNotEscalated ==
    \A t \in Procs :
        /\ returned[t] => ~fatal[t]
        /\ (/\ Count(t, "close") = 1
            /\ db[t].mode /= RunModeDocker /\ db[t].driver /= mongoDriverName
            /\ ~Has(t, "sql.Open", FALSE))
              => /\ Count(t, "prepareCleanUp") = call[t].opt.prepareCleanUp
                 /\ Count(t, "DROP DATABASE") = 1
        /\ (pc[t] = "done" /\ returned[t])
              => Count(t, "db.Close") = 1 /\ Count(t, "close") = 1
        /\ (pc[t] = "done" /\ Has(t, "acquire", TRUE)) => Count(t, "release") = 1

\* a hook and DROP DATABASE failed in one test and a purge was given up in
\* another; both tests ended without tb.Fatalf
C9_Witness ==
    /\ \E t \in Procs : /\ returned[t] /\ pc[t] = "done" /\ ~fatal[t]
                        /\ Has(t, "prepareCleanUp", FALSE) /\ Has(t, "DROP DATABASE", FALSE)
    /\ \E t \in Procs : /\ returned[t] /\ pc[t] = "done" /\ ~fatal[t]
                        /\ Has(t, "purge", FALSE)

\* the variable TESTDOCK_DSN_PGX holds a text
PgxOverride ==
    LET name == <<"T", "E", "S", "T", "D", "O", "C", "K", "_", "D", "S", "N", "_",
                  "P", "G", "X">>
    IN name \in DOMAIN env /\ env[name] /= <<>>

\* C10: once prepareOptions is past its mode block, a pgx instance configured
\* Auto has the mode External when TESTDOCK_DSN_PGX is non-empty and Docker
\* when it is not; an instance configured Docker or External has that mode
\* whatever the environment holds; the mode is not Auto. As the call and the
\* environment do not change, neither does the mode from then on.
C10_ModeResolution ==
    \A t \in Procs :
        (Count(t, "prepareOptions") = 1 /\ call[t].driver = pgxDriverName) =>
            /\ call[t].opt.mode = RunModeAuto
                  => db[t].mode = (IF PgxOverride THEN RunModeExternal ELSE RunModeDocker)
            /\ call[t].opt.mode \in {RunModeDocker, RunModeExternal}
                  => db[t].mode = call[t].opt.mode
            /\ db[t].mode /= RunModeAuto

\* with the variable set, an Auto instance runs External beside an instance
\* configured Docker
C10_Witness ==
    /\ PgxOverride
    /\ \E t \in Procs : /\ call[t].opt.mode = RunModeAuto /\ returned[t]
                        /\ db[t].mode = RunModeExternal
    /\ \E t \in Procs : /\ call[t].opt.mode = RunModeDocker /\ returned[t]
                        /\ db[t].mode = RunModeDocker

\* the value of TESTDOCK_DSN_PGX
PgxOverrideValue ==
    Getenv(env, <<"T", "E", "S", "T", "D", "O", "C", "K", "_", "D", "S", "N", "_",
                  "P", "G", "X">>)

\* the call of test t with the value of the variable in place of its dsn
OverrideCall(t) == [call[t] EXCEPT !.dsn = PgxOverrideValue]

\* C11: with the mode Auto and TESTDOCK_DSN_PGX set, a pgx call that has
\* started ends its option handling as the same call on the value of the
\* variable does, whatever its own dsn is: the same error or none, and on
\* success the testDB holds the value of the variable as its dsn (the key of
\* the per-DSN mutex and of the registry), its url is the parse of that
\* value, the mode is External, and no container is acquired or started.
C11_OverrideReplacesInput ==
    \A t \in Procs :
        (/\ PgxOverride /\ call[t].driver = pgxDriverName
         /\ call[t].opt.mode = RunModeAuto /\ pc[t] /= "start") =>
            /\ log[t][1] = Ev("prepareOptions", 0, prepareOptions(t, OverrideCall(t), env).err = "")
            /\ Has(t, "prepareOptions", TRUE) =>
                  /\ db[t].dsn = PgxOverrideValue
                  /\ db[t].url = parseURL(PgxOverrideValue)
                  /\ db[t].mode = RunModeExternal
            /\ Count(t, "acquire") = 0 /\ Count(t, "start") = 0

\* the connection string prepareOptions works on for the call c in the
\* environment e, and the mode it settles on
EffectiveDSN(c, e) == ResolveDSN(c.opt.mode, c.dsn, Getenv(e, EnvName(c.driver)))
EffectiveMode(c, e) == ResolveMode(c.opt.mode, Getenv(e, EnvName(c.driver)))

\* the configurations that are refused: no driver, no connection string or
\* one that does not parse, Docker without a repository, the migrations
\* directory without the factory or the factory without the directory
MigrationsMismatch(c) == (c.opt.migrationsDir = <<>>) /= (~c.opt.MigrateFactory)

InvalidConfig(c, e) ==
    \/ c.driver = <<>>
    \/ EffectiveDSN(c, e) = <<>>
    \/ parseURL(EffectiveDSN(c, e)).err /= ""
    \/ EffectiveMode(c, e) = RunModeDocker /\ c.opt.dockerRepository = <<>>
    \/ MigrationsMismatch(c)

\* test t holds or has made nothing: no lock, no registry entry, no container,
\* no database, no callback
Untouched(t) ==
    /\ globalMu /= t /\ globalDockerMu /= t
    /\ \A k \in Keys : globalMuByDSN[k] /= t
    /\ info[t] = 0 /\ ~createdPool[t] /\ t \notin running
    /\ \A k \in Keys : globalDockerResources[k] /= t
    /\ \A d \in dbs : d[2] /= DatabaseNameOf(t)
    /\ cleanups[t] = <<>>

\* C12: a call with an invalid configuration, once started, has failed with
\* tb.Fatalf and returned nothing; its one step was the refusal, and it has
\* acquired no container, started none, created no database, connected to
\* none, taken no lock and registered no callback.
C12_InvalidConfigFatalFirst ==
    \A t \in Procs :
        (InvalidConfig(call[t], env) /\ pc[t] /= "start") =>
            /\ fatal[t] /\ ~returned[t]
            /\ pc[t] \in {"cleanup", "done"}
            /\ Len(log[t]) = 1 /\ ~log[t][1].ok
            /\ Count(t, "acquire") = 0 /\ Count(t, "start") = 0
            /\ Count(t, "CREATE DATABASE") = 0 /\ Count(t, "connect") = 0
            /\ Untouched(t)

\* a call with the migrations directory but no factory is over, refused, while
\* another test works on its container
C12_Witness ==
    \E t \in Procs :
        /\ MigrationsMismatch(call[t]) /\ pc[t] = "done" /\ fatal[t]
        /\ Has(t, "prepareOptions", FALSE)
        /\ \E o \in Procs \ {t} : returned[o] /\ running /= {}

\* C13: a call whose retry timeout is not less than its total retry duration
\* is refused by prepareOptions: once started it is fatal, with the failed
\* option handling as its only step.
C13_RetryTimingRejected ==
    \A t \in Procs :
        (/\ call[t].opt.retryTimeout >= call[t].opt.totalRetryDuration
         /\ pc[t] /= "start") =>
            /\ fatal[t] /\ ~returned[t]
            /\ Has(t, "prepareOptions", FALSE) /\ Len(log[t]) = 1

\* what retryConnect keeps true at every moment of a run
RetrySafety ==
    /\ retry.pc = "done" => retry.invoked >= 1
    /\ retry.gaps \subseteq {retry.retryTimeout}
    /\ retry.pc = "done" => (retry.ret.err = 0 <=> retry.okAt /= 0)
    /\ retry.okAt /= 0 => (retry.pc = "done" /\ retry.invoked = retry.okAt)
    /\ retry.pc = "operation" => retry.now <= retry.totalRetryDuration
    /\ (retry.pc = "done" /\ retry.ret.err /= 0)
          => retry.now + retry.retryTimeout > retry.totalRetryDuration

\* C14: retryConnect returns only after at least one invocation of the
\* operation; the time between the end of an invocation and the start of the
\* next is retryTimeout each time; it returns nil exactly when an invocation
\* succeeded, and the first success is the last invocation; an invocation
\* starts only while the elapsed time is within totalRetryDuration, and the
\* error is returned when elapsed time plus the interval passes it; and every
\* run returns.
C14_RetryConnect == []RetrySafety /\ <>(retry.pc = "done")

\* the operation succeeds at its third invocation, after two waits
C14_Witness ==
    /\ retry.pc = "done" /\ retry.okAt = 3 /\ retry.ret.err = 0
    /\ retry.retryTimeout > 0 /\ retry.gaps = {retry.retryTimeout}

\* C15: the error retryConnect returns when it gives up wraps the error of
\* the last invocation of the operation, and the number of attempts it
\* states is the number of invocations made.
C15_GiveUpError ==
    (retry.pc = "done" /\ retry.ret.err /= 0) =>
        /\ retry.ret.err = retry.invoked
        /\ retry.ret.attempt = retry.invoked

\* retryConnect gave up after three failed invocations
C15_Witness ==
    /\ retry.pc = "done" /\ retry.ret.err = 3 /\ retry.invoked = 3
    /\ retry.ret.attempt = 3

(***************************************************************************)
(* The parts of a connection string, as parseURL cuts them (lines 43-114). *)
(***************************************************************************)
\* the text after the first "://", the whole text without one
Remainder(s) ==
    LET parts == SplitN2(s, <<":", "/", "/">>)
    IN IF Len(parts) = 2 THEN parts[2] ELSE s

\* the text after the last "@" of the remainder
AfterCredentials(s) ==
    SubSeq(Remainder(s), LastIndex(Remainder(s), <<"@">>) + 1, Len(Remainder(s)))

\* that text cut at its first "?", and what stands before the "?" cut at its
\* first "/"
HostAndQuery(s) == SplitN2(AfterCredentials(s), <<"?">>)
HostAndDB(s) == SplitN2(HostAndQuery(s)[1], <<"/">>)

\* the host section is "name(...)"
HasTransport(s) ==
    Index(HostAndDB(s)[1], <<"(">>) > 0 /\ HasSuffix(HostAndDB(s)[1], <<")">>)

\* the name before "(" and the text between the parentheses
TransportParts(s) == SplitN2(HostAndDB(s)[1], <<"(">>)

\* "host:port" cut at its first ":"
HostAndPort(s) ==
    SplitN2(IF HasTransport(s) THEN TrimSuffix(TransportParts(s)[2], <<")">>)
            ELSE HostAndDB(s)[1], <<":">>)

\* the pairs of the query, and their keys in the order they are written
Params(s) ==
    IF Len(HostAndQuery(s)) = 2 THEN Split(HostAndQuery(s)[2], <<"&">>) ELSE <<>>
KeysWritten(s) == [i \in 1..Len(Params(s)) |-> SplitN2(Params(s)[i], <<"=">>)[1]]

\* the keys stand in ascending order; in strictly ascending order
KeysAscending(s) ==
    \A i, j \in 1..Len(Params(s)) : i < j => ~Less(KeysWritten(s)[j], KeysWritten(s)[i])
KeysStrictlyAscending(s) ==
    \A i, j \in 1..Len(Params(s)) : i < j => Less(KeysWritten(s)[i], KeysWritten(s)[j])

\* an accepted connection string that writes nothing dbURL.string leaves out
\* or writes otherwise: the port is the plain decimal numeral, a "/" is
\* followed by a database, a "?" by pairs that all have "=", with no key
\* twice, and parentheses are preceded by a transport
Canonical(s) ==
    /\ HostAndPort(s)[2] = Itoa(Atoi(HostAndPort(s)[2]).val)
    /\ Len(HostAndDB(s)) = 2 => HostAndDB(s)[2] /= <<>>
    /\ \A i \in 1..Len(Params(s)) : Len(SplitN2(Params(s)[i], <<"=">>)) = 2
    /\ KeysStrictlyAscending(s)
    /\ HasTransport(s) => TransportParts(s)[1] /= <<>>

\* string(false) was called on the dbURL of an accepted connection string
Serialized == codec.pc \in {"serialized", "done"}

\* C16 as it is claimed: for an accepted connection string whose option keys
\* stand in ascending order, string(false) of its dbURL is that connection
\* string.
C16_StringRoundTrip ==
    (Serialized /\ KeysAscending(codec.connStr)) => codec.text = codec.connStr

\* C16: for an accepted connection string, string(false) of its dbURL is that
\* connection string exactly when it is canonical: its port is written as the
\* plain decimal numeral (no sign, no leading zero), a "/" is followed by a
\* non-empty database, a "?" is followed by pairs that all have "=", with
\* keys in strictly ascending order, and parentheses have a transport name.
C16_CanonicalRoundTrip ==
    Serialized => (codec.text = codec.connStr <=> Canonical(codec.connStr))

\* a connection string with every part, written back as it was
C16_Witness ==
    /\ Serialized /\ codec.text = codec.connStr
    /\ codec.connStr = <<"p", ":", "/", "/", "u", ":", "p", "@", "q", "@", "t", "(", "h", ":", "1", "2", ")", "/", "d", "?", "a", "b", "=", "1", "&", "b", "=", "2">>

\* C17: parseURL of the text string(false) wrote for a dbURL that parseURL
\* returned succeeds and returns a dbURL with the same protocol, transport,
\* user, password, host, port, database and options.
C17_DescriptorRoundTrip ==
    codec.pc = "done" =>
        /\ codec.again.err = ""
        /\ codec.again.Protocol = codec.u.Protocol
        /\ codec.again.Transport = codec.u.Transport
        /\ codec.again.User = codec.u.User
        /\ codec.again.Password = codec.u.Password
        /\ codec.again.Host = codec.u.Host
        /\ codec.again.Port = codec.u.Port
        /\ codec.again.Database = codec.u.Database
        /\ codec.again.Options = codec.u.Options

\* a connection string that is not written back as it was, with a password
\* that holds "@" and options out of order, gives the same dbURL again
C17_Witness ==
    /\ codec.pc = "done" /\ codec.again = codec.u
    /\ codec.connStr = <<"p", ":", "/", "/", "u", ":", "p", "@", "q", "@", "t", "(", "h", ":", "0", "1", ")", "/", "d", "?", "b", "=", "2", "&", "a", "=", "1">>
    /\ codec.text = <<"p", ":", "/", "/", "u", ":", "p", "@", "q", "@", "t", "(", "h", ":", "1", ")", "/", "d", "?", "a", "=", "1", "&", "b", "=", "2">>

\* parseURL was called and returned a dbURL
Accepted == codec.pc /= "input" /\ codec.u.err = ""

CredentialsWritten(s) ==
    SubSeq(Remainder(s), 1, LastIndex(Remainder(s), <<"@">>) - 1)

\* the first rule of parseURL a connection string breaks, by the message of
\* that rule, among: empty text, "://" without a protocol, credentials
\* without ":", with no user, with no password, no host, no port after ":";
\* "" when it breaks none of them
RuleBroken(s) ==
    IF s = <<>> THEN "connection string cannot be empty"
    ELSE IF Index(s, <<":", "/", "/">>) = 1
      THEN "invalid connection string format: '://' exists, but no protocol"
    ELSE IF Index(Remainder(s), <<"@">>) > 0 /\ Index(CredentialsWritten(s), <<":">>) = 0
      THEN "invalid connection string format: missing password"
    ELSE IF Index(Remainder(s), <<"@">>) > 0 /\ Index(CredentialsWritten(s), <<":">>) = 1
      THEN "user is required"
    ELSE IF /\ Index(Remainder(s), <<"@">>) > 0
            /\ Index(CredentialsWritten(s), <<":">>) = Len(CredentialsWritten(s))
      THEN "password is required"
    ELSE IF HostAndPort(s)[1] = <<>> THEN "host is required"
    ELSE IF Len(HostAndPort(s)) = 2 /\ HostAndPort(s)[2] = <<>> THEN "port is required"
    ELSE ""

\* the wrong connection strings the claim names, each with the message of
\* parseURL that holds the words the claim gives for it
RejectedExamples ==
    {<<<<>>,
       "connection string cannot be empty">>,
     <<<<":", "/", "/", "x">>,
       "invalid connection string format: '://' exists, but no protocol">>,
     <<<<"u", "s", "e", "r", "@", "h", "o", "s", "t", ":", "1">>,
       "invalid connection string format: missing password">>,
     <<<<":", "p", "@", "h", "o", "s", "t", ":", "1">>,
       "user is required">>,
     <<<<"u", ":", "@", "h", "o", "s", "t", ":", "1">>,
       "password is required">>,
     <<<<"u", ":", "p", "@", ":", "1">>,
       "host is required">>,
     <<<<"u", ":", "p", "@", "h", "o", "s", "t", ":">>,
       "port is required">>}

\* C19: parseURL returns no dbURL but the error of the first rule the text
\* breaks: "connection string cannot be empty" for the empty text, "'://'
\* exists, but no protocol" for "://" at the start, "missing password" for
\* credentials without ":", "user is required" and "password is required"
\* for an empty user and an empty password, "host is required" for an empty
\* host and "port is required" for nothing after the ":" of the port; so it
\* is for "", "://x", "user@host:1", ":p@host:1", "u:@host:1", "u:p@:1" and
\* "u:p@host:".
C19_RuleMessages ==
    codec.pc /= "input" =>
        /\ RuleBroken(codec.connStr) /= "" => codec.u = [err |-> RuleBroken(codec.connStr)]
        /\ \A e \in RejectedExamples :
              codec.connStr = e[1] => codec.u = [err |-> e[2]]

\* "u:p@host:" was refused for its port
C19_Witness ==
    /\ codec.pc = "parsed" /\ codec.connStr = <<"u", ":", "p", "@", "h", "o", "s", "t", ":">>
    /\ codec.u = [err |-> "port is required"]

\* passwords that hold "@", "/", ":" and "\\": "p@q", "/\\:", "a://b" and the
\* password of TestURL_Parse
SpecialPasswords ==
    {<<"p", "@", "q">>,
     <<"/", "\\", ":">>,
     <<"a", ":", "/", "/", "b">>,
     <<"p", "@", "s", "s", "/", "\\", ":", "!", "w", "0", "r", "d">>}
\* the beginnings of a connection string: no protocol, "p://", "postgres://"
WrittenProtocols ==
    {<<>>,
     <<"p", ":", "/", "/">>,
     <<"p", "o", "s", "t", "g", "r", "e", "s", ":", "/", "/">>}
\* the users written: "u", "user"
Users ==
    {<<"u">>,
     <<"u", "s", "e", "r">>}

\* strings.HasPrefix
HasPrefix(s, prefix) == Len(s) >= Len(prefix) /\ SubSeq(s, 1, Len(prefix)) = prefix

\* s is written as proto, user, ":", pw, "@" and a tail without "@"
WrittenWith(s, proto, user, pw) ==
    /\ HasPrefix(s, proto \o user \o <<":">> \o pw \o <<"@">>)
    /\ Index(SubSeq(s, Len(proto) + Len(user) + Len(pw) + 3, Len(s)), <<"@">>) = 0

\* s with the password pw replaced by "p"
PlainPassword(s, proto, user, pw) ==
    proto \o user \o <<":", "p", "@">>
          \o SubSeq(s, Len(proto) + Len(user) + Len(pw) + 3, Len(s))

\* the result of parseURL is the one the same text with the password "p"
\* has, but for the password, which is pw
IntactPassword(s, proto, user, pw) ==
    IF parseURL(PlainPassword(s, proto, user, pw)).err /= ""
    THEN codec.u = parseURL(PlainPassword(s, proto, user, pw))
    ELSE codec.u = [parseURL(PlainPassword(s, proto, user, pw)) EXCEPT !.Password = pw]

\* the last-"@" rule on the remainder: the user is what stands before the
\* first ":" of the text before the last "@", the password what stands after
LastAtRule ==
    (Accepted /\ Index(Remainder(codec.connStr), <<"@">>) > 0) =>
        /\ codec.u.User =
              SubSeq(CredentialsWritten(codec.connStr), 1,
                     Index(CredentialsWritten(codec.connStr), <<":">>) - 1)
        /\ codec.u.Password =
              SubSeq(CredentialsWritten(codec.connStr),
                     Index(CredentialsWritten(codec.connStr), <<":">>) + 1,
                     Len(CredentialsWritten(codec.connStr)))

\* C20 as it is claimed: the last-"@" rule holds, and a connection string
\* written with a password that holds "@", "/", ":" or "\\" is parsed as the
\* same string with a plain password is, with that password intact.
C20_LastAtRule ==
    /\ LastAtRule
    /\ codec.pc /= "input" =>
           \A proto \in WrittenProtocols, user \in Users, pw \in SpecialPasswords :
               WrittenWith(codec.connStr, proto, user, pw)
                   => IntactPassword(codec.connStr, proto, user, pw)

\* C20: the last-"@" rule holds on the remainder, and a connection string
\* written with a password that holds "@", "/", ":" or "\\" is parsed with
\* that password intact when a protocol is written before the credentials
\* or user, ":" and password hold no "://"; without a protocol the first
\* "://" of the credentials is taken for the end of the protocol.
C20_LastAtRuleAfterProtocol ==
    /\ LastAtRule
    /\ codec.pc /= "input" =>
           \A proto \in WrittenProtocols, user \in Users, pw \in SpecialPasswords :
               (/\ WrittenWith(codec.connStr, proto, user, pw)
                /\ (proto /= <<>> \/ Index(user \o <<":">> \o pw, <<":", "/", "/">>) = 0))
                   => IntactPassword(codec.connStr, proto, user, pw)

\* the connection string of TestURL_Parse with the password p@ss/\\:!w0rd
C20_Witness ==
    /\ Accepted
    /\ codec.connStr = <<"p", "o", "s", "t", "g", "r", "e", "s", ":", "/", "/", "u", "s", "e", "r", ":", "p", "@", "s", "s", "/", "\\", ":", "!", "w", "0", "r", "d", "@", "l", "o", "c", "a", "l", "h", "o", "s", "t", ":", "5", "4", "3", "2", "/", "m", "y", "d", "b">>
    /\ codec.u.User = <<"u", "s", "e", "r">>
    /\ codec.u.Password = <<"p", "@", "s", "s", "/", "\\", ":", "!", "w", "0", "r", "d">>

\* C21: whatever is done to the copy clone or replaceDatabase returned, its
\* options included, the source holds what it held before the call; the
\* copy is another struct with another map; before it is changed, the copy
\* of clone equals the source field by field and that of replaceDatabase
\* differs from it in Database alone, which is the name given; clone of nil
\* is nil.
C21_IndependentCopies ==
    /\ Deref(codec, codec.u) = codec.u0
    /\ codec.pc \in {"cloned", "replaced"} =>
          /\ codec.u = 0 => codec.copy = 0
          /\ codec.u /= 0 =>
                /\ codec.copy \notin {0, codec.u}
                /\ codec.structs[codec.copy].Options /= codec.structs[codec.u].Options
    /\ (codec.pc = "cloned" /\ codec.edits = 0)
          => Deref(codec, codec.copy) = Deref(codec, codec.u)
    /\ (codec.pc = "replaced" /\ codec.edits = 0)
          => Deref(codec, codec.copy) = [Deref(codec, codec.u) EXCEPT !.Database = codec.name]

\* an option of the copy of a dbURL with options was overwritten and another
\* deleted, and the source still has both
C21_Witness ==
    /\ codec.pc = "cloned" /\ codec.edits = 2 /\ codec.copy /= 0
    /\ DOMAIN Deref(codec, codec.u).Options = {<<"a">>, <<"b">>}
    /\ Deref(codec, codec.u).Options[<<"a">>] = <<"1">>
    /\ DOMAIN Deref(codec, codec.copy).Options = {<<"b">>}

\* string(true) was called on a dbURL with a password
Hidden == codec.pc = "hidden" /\ codec.u.Password /= <<>>

\* what string writes before the password
BeforePassword(u) == WriteProtocol(u) \o u.User \o <<":">>

\* what string(false) writes after the password
AfterPassword(u) ==
    SubSeq(string(u, FALSE), Len(BeforePassword(u)) + Len(u.Password) + 1,
           Len(string(u, FALSE)))

\* the characters of s
Chars(s) == {s[i] : i \in 1..Len(s)}

\* C22 as stated: the text string(true) returns for a dbURL with a password
\* does not contain the password.
C22_PasswordNotInHidden == Hidden => Index(codec.hidden, codec.u.Password) = 0

\* C22: the text string(true) returns for a dbURL with a password is the text
\* string(false) returns with five stars in the place of the password; it
\* does not contain the password when the password has a character, not a
\* star, that the rest of the text has not.
C22_PasswordReplacedByStars ==
    Hidden =>
        /\ string(codec.u, FALSE)
             = BeforePassword(codec.u) \o codec.u.Password \o AfterPassword(codec.u)
        /\ codec.hidden
             = BeforePassword(codec.u) \o <<"*", "*", "*", "*", "*">> \o AfterPassword(codec.u)
        /\ (Chars(codec.u.Password)
               \ (Chars(BeforePassword(codec.u) \o AfterPassword(codec.u)) \cup {"*"}) /= {}
             => Index(codec.hidden, codec.u.Password) = 0)

\* the password "secret" of a connection string of TestURL_Parse was hidden
C22_Witness ==
    /\ Hidden
    /\ codec.u.Password = <<"s", "e", "c", "r", "e", "t">>
    /\ codec.hidden = <<"m", "y", "s", "q", "l", ":", "/", "/", "r", "o", "o", "t", ":", "*", "*", "*", "*", "*", "@", "t", "c", "p", "(", "1", "2", "7", ".", "0", ".", "0", ".", "1", ":", "3", "3", "0", "6", ")", "/", "t", "e", "s", "t", "d", "b", "?", "c", "h", "a", "r", "s", "e", "t", "=", "u", "t", "f", "8", "&", "o", "p", "t", "2", "=", "v", "a", "l", "2">>
    /\ Index(codec.hidden, codec.u.Password) = 0

\* the call of test t succeeded and the test holds its Informer
HasInformer(t) == returned[t] /\ pc[t] = "ready"

\* C23: for a test that holds the Informer of a successful call, the working
\* descriptor is the parsed effective connection string but for its port;
\* DSN() parses to a dbURL with the database DatabaseName(), the port Port()
\* and the user and password of the effective connection string; Host() is
\* the host of the effective connection string; Port() is in Docker mode the
\* port the container of the test's registry entry is bound to and else the
\* port of the effective connection string; DatabaseName() is not the
\* database of the connection string, given or effective.
C23_InformerContract ==
    \A t \in Procs :
        HasInformer(t) =>
            LET d == db[t]
                eff == parseURL(EffectiveDSN(call[t], env))
                got == parseURL(DSN(d))
            IN  /\ eff.err = ""
                /\ d.url = [eff EXCEPT !.Port = Port(d)]
                /\ got.err = ""
                /\ got.Database = DatabaseName(d)
                /\ got.Port = Port(d)
                /\ got.User = eff.User /\ got.Password = eff.Password
                /\ got.Host = Host(d) /\ Host(d) = eff.Host
                /\ IF d.mode = RunModeDocker
                   THEN /\ ServerOf(t) \in running
                        /\ Port(d) = hostPort[ServerOf(t)]
                        /\ Port(d) >= eff.Port
                   ELSE Port(d) = eff.Port
                /\ DatabaseName(d) /= <<>>
                /\ DatabaseName(d) /= eff.Database
                /\ parseURL(call[t].dsn).err = ""
                      => DatabaseName(d) /= parseURL(call[t].dsn).Database

\* a test in Docker mode holds an Informer whose port is the one its
\* container was moved to, above the port of its connection string
C23_Witness ==
    \E t \in Procs :
        /\ HasInformer(t) /\ db[t].mode = RunModeDocker
        /\ Port(db[t]) = parseURL(call[t].dsn).Port + 1
        /\ DSN(db[t]) = SubSeq(call[t].dsn, 1, 6) \o Itoa(Port(db[t])) \o <<"/">> \o DatabaseNameOf(t)

\* the release callback of test t removed the entry of its key and returned
ReleasedLast(t) ==
    Count(t, "purge") > 0 /\ pc[t] \notin {"delete", "purge", "releaseUnlock"}

\* C24: once the release callbacks have returned, one of them having dropped
\* the last reference, and the registry is empty with every test over, the
\* docker client is reset to nil.
C24_ClientReleasedWithRegistry ==
    (/\ \E t \in Procs : ReleasedLast(t)
     /\ \A t \in Procs : pc[t] = "done"
     /\ RegistryEmpty)
        => ~globalDockerPool

\* close of test t ran
Closed(t) == Count(t, "close") > 0

\* test t is not in Docker mode and its driver is an SQL driver
ExternalSQL(t) == db[t].mode /= RunModeDocker /\ db[t].driver /= mongoDriverName

\* what every close does but the number of DROP DATABASE of an SQL driver
\* out of Docker mode: none in Docker mode, none for mongodb, whose cleanup
\* drops the database through the client once when the mode is not Docker
\* and never when it is
DropsByMode(t) ==
    /\ db[t].mode = RunModeDocker
          => Count(t, "DROP DATABASE") = 0 /\ Count(t, "mongo Drop") = 0
    /\ db[t].driver = mongoDriverName => Count(t, "DROP DATABASE") = 0
    /\ call[t].api /= "GetMongoDatabase" => Count(t, "mongo Drop") = 0
    /\ (call[t].api = "GetMongoDatabase" /\ db[t].mode /= RunModeDocker
           /\ Count(t, "db.Close") > 0)
          => Count(t, "mongo Drop") = 1

\* C25 as stated: close issues no DROP DATABASE in Docker mode and exactly
\* one out of Docker mode with an SQL driver; for mongodb it issues none and
\* the database is dropped through the client when the mode is not Docker.
C25_ExactlyOneDrop ==
    \A t \in Procs :
        Closed(t) =>
            /\ DropsByMode(t)
            /\ ExternalSQL(t) => Count(t, "DROP DATABASE") = 1

\* C25: as C25_ExactlyOneDrop, but out of Docker mode with an SQL driver
\* close issues one DROP DATABASE when its sql.Open succeeded and none when
\* it failed; a DROP DATABASE that succeeded removed the database of the
\* test's own name, which the test had created.
C25_OneDropAfterOpen ==
    \A t \in Procs :
        Closed(t) =>
            /\ DropsByMode(t)
            /\ ExternalSQL(t) =>
                  /\ Count(t, "DROP DATABASE") = (IF Has(t, "sql.Open", FALSE) THEN 0 ELSE 1)
                  /\ Has(t, "DROP DATABASE", TRUE) =>
                        /\ Has(t, "CREATE DATABASE", TRUE)
                        /\ <<0, db[t].databaseName>> \notin dbs

\* a test on a real SQL database is over, its one DROP DATABASE succeeded
\* and its database is gone
C25_Witness ==
    \E t \in Procs :
        /\ pc[t] = "done" /\ ExternalSQL(t) /\ returned[t]
        /\ Count(t, "DROP DATABASE") = 1 /\ Has(t, "DROP DATABASE", TRUE)
        /\ <<0, db[t].databaseName>> \notin dbs

\* the history of test t holds, right after the start of its close, the
\* calls of all its hooks, one each in the order of registration, with the
\* name of its database, and then the one DROP DATABASE of the test
HooksThenDrop(t) ==
    LET c == Pos(t, "close")
        n == db[t].prepareCleanUp
    IN  /\ Len(log[t]) >= c + n + 1
        /\ \A k \in 1..n :
              /\ log[t][c + k].e = "prepareCleanUp" /\ log[t][c + k].i = k
              /\ log[t][c + k].name = db[t].databaseName
        /\ Count(t, "prepareCleanUp") = n
        /\ log[t][c + n + 1].e = "DROP DATABASE"
        /\ Count(t, "DROP DATABASE") = 1

\* C26 as stated: a close out of Docker mode with an SQL driver calls every
\* hook once, in the order of registration, with the database name, all
\* before DROP DATABASE, which is issued whether hooks failed or not.
C26_HooksThenDrop ==
    \A t \in Procs : (Closed(t) /\ ExternalSQL(t)) => HooksThenDrop(t)

\* C26: as C26_HooksThenDrop when the sql.Open of close succeeded; when it
\* failed no hook is called and no DROP DATABASE issued.
C26_HooksThenDropAfterOpen ==
    \A t \in Procs :
        (Closed(t) /\ ExternalSQL(t)) =>
            IF Has(t, "sql.Open", FALSE)
            THEN Count(t, "prepareCleanUp") = 0 /\ Count(t, "DROP DATABASE") = 0
            ELSE HooksThenDrop(t)

\* the first of two hooks failed, the second was called and succeeded, and
\* DROP DATABASE followed
C26_Witness ==
    \E t \in Procs :
        /\ Closed(t) /\ ExternalSQL(t) /\ db[t].prepareCleanUp = 2
        /\ HooksThenDrop(t)
        /\ ~log[t][Pos(t, "close") + 1].ok /\ log[t][Pos(t, "close") + 2].ok
        /\ Has(t, "DROP DATABASE", TRUE)

\* the steps of the construction and those of the teardown, as the history
\* names them
SetupSteps == {"parseURL", "prepareOptions", "port conflict", "acquire", "start",
               "CREATE DATABASE", "migrationsUp", "connect"}
TeardownSteps == {"db.Close", "mongo Drop", "close", "sql.Open", "prepareCleanUp",
                  "DROP DATABASE", "release", "purge"}

\* test t did e with success before the place i of its history
Before(t, e, i) == \E j \in Entries(t, e) : j < i /\ log[t][j].ok

\* C27: in the history of every test the container is acquired only after
\* prepareOptions succeeded and only in Docker mode; CREATE DATABASE is
\* attempted only after prepareOptions succeeded and, in Docker mode, after
\* the acquisition succeeded; migrationsUp is called only when a directory
\* is configured and after CREATE DATABASE succeeded (for mongodb, which
\* creates no database, after the step before it); the connection is made
\* and the result returned only after every configured step succeeded; no
\* step of the construction follows a step of the teardown, and a test that
\* is over has no callback left.
C27_LifecycleOrder ==
    \A t \in Procs :
        /\ \A i \in Entries(t, "acquire") \cup Entries(t, "start") :
              db[t].mode = RunModeDocker /\ Before(t, "prepareOptions", i)
        /\ \A i \in Entries(t, "CREATE DATABASE") :
              /\ Before(t, "prepareOptions", i)
              /\ db[t].mode = RunModeDocker => Before(t, "acquire", i)
        /\ \A i \in Entries(t, "migrationsUp") :
              /\ db[t].migrationsDir /= <<>>
              /\ Before(t, "prepareOptions", i)
              /\ db[t].mode = RunModeDocker => Before(t, "acquire", i)
              /\ db[t].driver /= mongoDriverName => Before(t, "CREATE DATABASE", i)
        /\ \A i \in Entries(t, "connect") :
              /\ Before(t, "prepareOptions", i)
              /\ db[t].mode = RunModeDocker => Before(t, "acquire", i)
              /\ db[t].driver /= mongoDriverName => Before(t, "CREATE DATABASE", i)
              /\ db[t].migrationsDir /= <<>> => Before(t, "migrationsUp", i)
              /\ \A j \in 1..(i - 1) : log[t][j].ok \/ log[t][j].e = "port conflict"
        /\ returned[t] => Has(t, "connect", TRUE)
        /\ \A i, j \in 1..Len(log[t]) :
              (log[t][i].e \in TeardownSteps /\ log[t][j].e \in SetupSteps) => j < i
        /\ \A i \in 1..Len(log[t]) : log[t][i].e \in SetupSteps \cup TeardownSteps
        /\ pc[t] = "done" => cleanups[t] = <<>>

\* a test in Docker mode with migrations went through every step and is over
C27_Witness ==
    \E t \in Procs :
        /\ pc[t] = "done" /\ returned[t]
        /\ [i \in 1..Len(log[t]) |-> log[t][i].e]
             = <<"prepareOptions", "start", "acquire", "CREATE DATABASE", "migrationsUp",
                 "connect", "db.Close", "close", "release", "purge">>

\* test t is inside createDockerResources
InCreateDockerResources(t) ==
    pc[t] \in {"dockerLookup", "startFailed", "resetDone", "resetFailed"} \/ InAcquire(t)

\* C28: two tests with the same connection string are never both inside
\* createDockerResources, whose start loop is a part of it; tests with
\* different connection strings can be (C28_Witness).
C28_SameKeySerialized ==
    \A t, q \in Procs :
        (t /= q /\ pc[t] /= "start" /\ pc[q] /= "start" /\ db[t].dsn = db[q].dsn)
            => ~(InCreateDockerResources(t) /\ InCreateDockerResources(q))

\* two tests with different connection strings are both in the start loop,
\* each holding the mutex of its string and the lock of its own info
C28_Witness ==
    \E t, q \in Procs :
        /\ db[t].dsn /= db[q].dsn
        /\ pc[t] = "run" /\ pc[q] = "run"
        /\ globalMuByDSN[KeyOf(t)] = t /\ globalMuByDSN[KeyOf(q)] = q
        /\ info[t] /= info[q] /\ infos[info[t]].mu = t /\ infos[info[q]].mu = q

\* the testDB of test t as prepareOptions left it
Prepared(t) == prepareOptions(t, call[t], env).db

\* test t is in the start loop, at a call of RunWithOptions
InStartLoop(t) == pc[t] = "run"

\* in the start loop, and once the loop ended with a container, the working
\* descriptor of test t is the prepared one but for its port, which is the
\* requested port and the number of port conflicts; fewer than maxAttempts
\* other failures were counted; the port the container was started on and
\* the one recorded on the entry are that port
LoopState(t) ==
    /\ (InStartLoop(t) \/ Count(t, "start") > 0 \/ pc[t] = "startFailed") =>
          /\ db[t] = [Prepared(t) EXCEPT !.url.Port = Requested(t) + Count(t, "port conflict")]
          /\ db[t].dsn = call[t].dsn /\ db[t].dockerPort = Requested(t)
    /\ InStartLoop(t) => attempt[t] < maxAttempts
    /\ pc[t] = "startFailed" => attempt[t] = maxAttempts
    /\ \A i \in Entries(t, "start") :
          log[t][i].i = Requested(t) + Count(t, "port conflict")
    /\ pc[t] = "insert" /\ Count(t, "start") > 0 =>
          infos[info[t]].port = Requested(t) + Count(t, "port conflict")

\* what a step of test t out of the start loop does: after a port conflict
\* the port is one higher, the count of attempts is the same and the loop
\* goes on; after another failure the count is one higher, the port is the
\* same and the loop ends when the count is maxAttempts; after a success the
\* loop ends with the port it tried
LoopStep(t) ==
    InStartLoop(t) =>
        \/ pc'[t] = "run" /\ db'[t] = db[t] /\ attempt'[t] = attempt[t]
        \/ /\ Count(t, "port conflict")' = Count(t, "port conflict") + 1
           /\ pc'[t] = "run" /\ attempt'[t] = attempt[t]
           /\ db'[t] = [db[t] EXCEPT !.url.Port = @ + 1]
        \/ /\ attempt'[t] = attempt[t] + 1 /\ db'[t] = db[t]
           /\ Count(t, "port conflict")' = Count(t, "port conflict")
           /\ pc'[t] = (IF attempt[t] + 1 = maxAttempts THEN "startFailed" ELSE "run")
        \/ /\ pc'[t] = "insert" /\ db'[t] = db[t]
           /\ Count(t, "start")' = Count(t, "start") + 1
           /\ infos'[info[t]].port = db[t].url.Port
        \/ pc'[t] = "panic"

\* C29: at every step of a behaviour, for the state it is taken in and for
\* the step: in the start loop a port conflict raises the host port by one and
\* leaves the count of attempts; another failure raises the count by one;
\* the loop ends at a success or when maxAttempts failures were counted; the
\* port recorded on the entry is the requested port and the number of port
\* conflicts; of the working descriptor nothing but the host port changes.
C29_StartLoop ==
    [][\A t \in Procs : LoopState(t) /\ LoopStep(t)]_vars

\* after a port conflict and failures of another kind the container was
\* started on the port above the requested one
C29_Witness ==
    \E t \in Procs :
        /\ pc[t] = "insert" /\ Count(t, "port conflict") = 1 /\ Count(t, "start") = 1
        /\ infos[info[t]].port = Requested(t) + 1
        /\ db[t].url.Port = Requested(t) + 1 /\ db[t].dockerPort = Requested(t)

\* createDockerResources of test t failed
AcquireFailed(t) == Has(t, "acquire", FALSE)

\* the step is one of test t
Moves(t) == pc'[t] /= pc[t] \/ log'[t] /= log[t] \/ attempt'[t] /= attempt[t]

\* after a failed createDockerResources test t has no release callback, has
\* attempted neither CREATE DATABASE nor migrations nor a connection, has
\* returned nothing, and is on its way to tb.Fatalf or past it
AbortedAfterAcquire(t) ==
    AcquireFailed(t) =>
        /\ Count(t, "acquire") = 1 /\ Count(t, "release") = 0 /\ cleanups[t] = <<>>
        /\ Count(t, "CREATE DATABASE") = 0 /\ Count(t, "migrationsUp") = 0
        /\ Count(t, "connect") = 0 /\ Count(t, "close") = 0
        /\ ~returned[t]
        /\ pc[t] \in {"resetFailed", "failUnlock", "cleanup", "done"}
        /\ pc[t] \in {"cleanup", "done"} => fatal[t]

\* C30: at every step of a behaviour: a step of a test in the start loop, a
\* step that ends createDockerResources in failure (NewPool, Ping or the
\* start given up) and every step of the test after that failure leave the
\* registry map, the count of every entry and the test's
\* callbacks as they were; a test whose createDockerResources failed has
\* registered no release callback and attempts no database creation,
\* migration or connection.
C30_FailedAcquireLeavesRegistry ==
    [][\A t \in Procs :
          /\ AbortedAfterAcquire(t)
          /\ (Moves(t) /\ (AcquireFailed(t)' \/ AcquireFailed(t) \/ InStartLoop(t))) =>
                /\ globalDockerResources' = globalDockerResources
                /\ \A i \in DOMAIN infos : infos'[i].count = infos[i].count
                /\ cleanups'[t] = cleanups[t]
                /\ dbs' = dbs]_vars

\* the start of the container of one test was given up while another test
\* holds the one reference to its container: the registry holds that entry
\* alone, and the failed test is over without a callback
C30_Witness ==
    \E t, q \in Procs :
        /\ AcquireFailed(t) /\ errResult[t] = "RunWithOptions" /\ pc[t] = "done"
        /\ cleanups[t] = <<>> /\ Count(t, "CREATE DATABASE") = 0
        /\ globalDockerResources[KeyOf(t)] = 0
        /\ Holding(q) /\ globalDockerResources[KeyOf(q)] = info[q]
        /\ infos[info[q]].count = 1

\* test t reads the resource or the port of its info: the later acquirer
\* that takes the port, the release callback that purges the resource
ReadsInfo(t) == pc[t] \in {"reuse", "purge"}

\* test t writes the resource and the port of its info: the start loop
WritesInfo(t) == pc[t] = "run"

\* C31: at every step of a behaviour: the resource and the port of an info
\* change only while its count is 0 and by a step of the test that holds its
\* mu and is in the start loop; a test that reads them holds the mu of the
\* info, so no test reads an info another test is writing.
C31_InfoUnderLock ==
    [][/\ \A i \in DOMAIN infos :
             (infos'[i].resource /= infos[i].resource \/ infos'[i].port /= infos[i].port)
                => /\ infos[i].count = 0 /\ infos[i].mu /= 0
                   /\ WritesInfo(infos[i].mu) /\ info[infos[i].mu] = i
                   /\ Moves(infos[i].mu) \/ db'[infos[i].mu] /= db[infos[i].mu]
       /\ \A t \in Procs :
             (ReadsInfo(t) \/ WritesInfo(t)) => infos[info[t]].mu = t
       /\ \A t, q \in Procs :
             (t /= q /\ WritesInfo(t) /\ ReadsInfo(q)) => info[t] /= info[q]]_vars

\* a test writes, in the start loop and after a failed start, the info
\* another test allocated, whose count went back to 0, holding its mu
C31_Witness ==
    \E t \in Procs :
        /\ WritesInfo(t) /\ attempt[t] > 0
        /\ info[t] /= t /\ infos[info[t]].mu = t /\ infos[info[t]].count = 0

\* the database of the connection string s
DatabaseOf(s) == parseURL(s).Database

\* test t created its database and its close opened a connection
CreatedAndClosed(t) ==
    /\ ExternalSQL(t) /\ Has(t, "CREATE DATABASE", TRUE)
    /\ Closed(t) /\ Count(t, "sql.Open") + Count(t, "DROP DATABASE") > 0

\* C32: the connect database of a prepared testDB is the one given to
\* WithConnectDatabase when the option is used and the database of the
\* connection string otherwise; CREATE DATABASE is issued on a connection
\* to it, and so is the DROP DATABASE of close out of Docker mode.
C32_SameConnectDatabase ==
    \A t \in Procs :
        /\ Has(t, "prepareOptions", TRUE) =>
              db[t].connectDatabase =
                  (IF call[t].opt.connectDatabaseOverride
                   THEN call[t].opt.connectDatabase
                   ELSE parseURL(EffectiveDSN(call[t], env)).Database)
        /\ Count(t, "CREATE DATABASE") > 0 =>
              DatabaseOf(createURL(db[t])) = db[t].connectDatabase
        /\ CreatedAndClosed(t) =>
              DatabaseOf(closeURL(db[t])) = db[t].connectDatabase

\* no mutex is held
AllUnlocked ==
    /\ globalMu = 0 /\ globalDockerMu = 0
    /\ \A k \in Keys : globalMuByDSN[k] \in {-1, 0}
    /\ \A i \in DOMAIN infos : infos[i].mu = 0

\* every test is over
AllDone == \A t \in Procs : pc[t] = "done"

\* test t waits in the Lock of a mutex another test holds
Waits(t, q) ==
    \/ pc[t] = "globalMu" /\ globalMu = q
    \/ pc[t] = "muLock" /\ globalMuByDSN[KeyOf(t)] = q
    \/ pc[t] \in {"dockerLookup", "insert", "delete", "resetDone", "resetFailed"}
          /\ globalDockerMu = q
    \/ pc[t] = "infoLock" /\ infos[info[t]].mu = q
    \/ pc[t] = "cleanup" /\ cleanups[t] /= <<>> /\ NextCleanup(cleanups[t]) = "release"
          /\ infos[info[t]].mu = q

\* no two tests wait for each other, and a test that is over or has failed
\* out of newTDB holds no mutex
LockSafety ==
    /\ \A t, q \in Procs : ~(t /= q /\ Waits(t, q) /\ Waits(q, t))
    /\ \A t \in Procs : ~Waits(t, t)
    /\ \A t \in Procs :
          (pc[t] = "done" \/ (pc[t] = "cleanup" /\ cleanups[t] = <<>>)) =>
              /\ globalMu /= t /\ globalDockerMu /= t
              /\ \A k \in Keys : globalMuByDSN[k] /= t
              /\ \A i \in DOMAIN infos : infos[i].mu /= t
    /\ AllDone => AllUnlocked

\* C33: no two tests ever wait for a mutex the other holds, a test that left
\* newTDB or a release callback by any path holds no mutex, and every test
\* comes to its end with every callback run, unless the process was ended
\* by the use of the nil docker client.
C33_NoDeadlock == []LockSafety /\ <>(AllDone \/ crashed)

\* both tests are over, one of them after newTDB failed, and no mutex is held
C33_Witness ==
    /\ AllDone /\ AllUnlocked
    /\ \E t \in Procs : Has(t, "acquire", FALSE)
    /\ \E t \in Procs : Has(t, "purge", TRUE)


\* C34: whenever a test is in the start loop, or an info has a count above 0,
\* the docker client is set.
C34_ClientPresentWhenUsed ==
    ((\E t \in Procs : InStartLoop(t)) \/ (\E i \in DOMAIN infos : infos[i].count > 0))
        => globalDockerPool


\* the tests that took a reference to info i and whose release callback has
\* not begun
Holders(i) ==
    {t \in Procs : info[t] = i /\ Has(t, "acquire", TRUE) /\ Count(t, "release") = 0}

\* test t is inside createDockerResources or inside its release callback, or
\* was ended there by a panic
InAcquireOrRelease(t) ==
    \/ InCreateDockerResources(t)
    \/ pc[t] \in {"delete", "purge", "releaseUnlock", "panic"}

\* no acquire and no release of the key k is in progress
Quiet(k) == \A t \in Procs : (pc[t] /= "start" /\ KeyOf(t) = k) => ~InAcquireOrRelease(t)

\* the infos the tests of the key k looked up or made
InfosOf(k) == {info[t] : t \in {q \in Procs : pc[q] /= "start" /\ KeyOf(q) = k}} \ {0}

\* C35: the count of every info is not negative and is the number of tests
\* that acquired it and whose release callback has not begun; while no acquire
\* and no release of a key is in progress, the key is in the registry exactly
\* when its info has a count above 0.
C35_CountMatchesHolders ==
    /\ \A i \in DOMAIN infos :
          infos[i].count >= 0 /\ infos[i].count = Cardinality(Holders(i))
    /\ \A k \in Keys :
          Quiet(k) =>
              /\ globalDockerResources[k] /= 0 =>
                    /\ infos[globalDockerResources[k]].count > 0
                    /\ \A i \in InfosOf(k) \ {globalDockerResources[k]} : infos[i].count = 0
              /\ globalDockerResources[k] = 0 => \A i \in InfosOf(k) : infos[i].count = 0

\* two tests acquired the same key, one has released it and the other has
\* not: the key is quiet, in the registry, and the count is 1
C35_Witness ==
    \E k \in Keys :
        /\ Quiet(k) /\ globalDockerResources[k] /= 0
        /\ infos[globalDockerResources[k]].count = 1
        /\ \E t, q \in Procs :
              /\ t /= q /\ info[t] = info[q] /\ info[t] = globalDockerResources[k]
              /\ Has(t, "release", TRUE) /\ q \in Holders(info[q])


\* C36: no test holds globalDockerMu while it starts a container or while it
\* purges one.
C36_RegistryLockNotHeldAcrossDocker ==
    \A t \in Procs : pc[t] \in {"run", "purge"} => globalDockerMu /= t


\* the host ports that were ever in use: those of other programs and those
\* containers were started on
EverBound == extBound \cup ({hostPort[c] : c \in Procs} \ {0})

\* the ports the start calls of test t found in use
ConflictPorts(t) == {log[t][i].i : i \in Entries(t, "port conflict")}

\* the start calls test t made in the loop it is in: one for each port
\* conflict and one for each failure of another kind
StartCalls(t) == Count(t, "port conflict") + attempt[t]

\* while test t is in the start loop fewer than maxAttempts of its calls
\* failed for another reason, each port conflict was on another port, one
\* that was in use, and so its start calls are fewer than maxAttempts and the
\* ports in use
StartCallsBounded(t) ==
    (InStartLoop(t) \/ pc[t] = "startFailed") =>
        /\ attempt[t] <= maxAttempts
        /\ InStartLoop(t) => attempt[t] < maxAttempts
        /\ Cardinality(ConflictPorts(t)) = Count(t, "port conflict")
        /\ ConflictPorts(t) \subseteq EverBound
        /\ StartCalls(t) <= Cardinality(EverBound) + maxAttempts

DropAttempted(t) == Closed(t) /\ Count(t, "sql.Open") + Count(t, "DROP DATABASE") > 0

\* C38: out of Docker mode with an SQL driver, a test that is over and whose
\* CREATE DATABASE succeeded had close go to drop that database, also when
\* its migration failed.
C38_CreatedIsDropped ==
    \A t \in Procs :
        (pc[t] = "done" /\ ExternalSQL(t) /\ Has(t, "CREATE DATABASE", TRUE))
            => DropAttempted(t)


\* C39: a test issues DROP DATABASE only after a CREATE DATABASE of its own
\* that succeeded; none after a CREATE DATABASE that failed.
C39_DropOnlyCreated ==
    \A t \in Procs :
        /\ Count(t, "DROP DATABASE") > 0 => Has(t, "CREATE DATABASE", TRUE)
        /\ Has(t, "CREATE DATABASE", FALSE) => Count(t, "DROP DATABASE") = 0


\* the containers that were purged
Purged ==
    UNION {{log[t][i].i : i \in {j \in Entries(t, "purge") : log[t][j].ok}} : t \in Procs}

\* the containers that were started
Started == {c \in Procs : Has(c, "start", TRUE)}

\* C40: from the return of a successful acquisition until the release
\* callback of the test begins, the resource of its info is a container that
\* was started, runs and was not purged, and the info is the entry of its
\* key, with the test counted.
C40_NoPurgedContainerReused ==
    \A t \in Procs :
        (Has(t, "acquire", TRUE) /\ Count(t, "release") = 0) =>
            /\ infos[info[t]].resource \in Started \ Purged
            /\ infos[info[t]].resource \in running
            /\ globalDockerResources[KeyOf(t)] = info[t]
            /\ infos[info[t]].count >= 1

\* a test looked up the entry of another test, whose last release then
\* removed it and purged the container; the test started a container of its
\* own into the same info and stored it again with count 1
C40_Witness ==
    \E t, q \in Procs :
        /\ t /= q /\ info[t] = q /\ info[q] = q
        /\ Has(q, "purge", TRUE) /\ q \in Purged
        /\ Has(t, "start", TRUE) /\ Has(t, "acquire", TRUE) /\ Count(t, "release") = 0
        /\ infos[q].resource = t /\ infos[q].count = 1
        /\ globalDockerResources[KeyOf(t)] = q

=============================================================================
